---- MODULE Spec2Model ----
(***************************************************************************)
(* A model of claude-guardian: the concurrency budget (Budget,             *)
(* budget-store), the incident tracker (IncidentTracker) and the watch     *)
(* daemon's poll callback together with the RPC/CLI budget handlers that   *)
(* share budget.json with it.                                              *)
(*                                                                         *)
(* Time is the wall clock in milliseconds (Date.now()).  The model's clock *)
(* starts at StartTime and moves forward by the steps of a delta set.      *)
(* randomUUID().slice(0, 8) is modelled as a fresh identifier drawn from a *)
(* counter.                                                                *)
(***************************************************************************)
EXTENDS Integers, Sequences, FiniteSets, TLC

\* ------------------------------------------------------------------ bounds
\* How many times the clock moves in one behaviour.
MaxAdvances == 3
\* How many leases are minted in one behaviour.
MaxLeases == 2

\* ------------------------------------------------------- program constants
baseCap == 4
warnCap == 2
criticalCap == 1
hysteresisSeconds == 60
bundleCooldownSeconds == 300
watchdogPollMs == 2000

\* The wall clock at the start of a behaviour: any instant later than the
\* bundle cooldown after the epoch (every real clock is).
StartTime == 2 * bundleCooldownSeconds * 1000

RiskLevels == {"ok", "warn", "critical"}

\* null for a field that holds a record, and for one that holds a risk level.
Null == [null |-> TRUE]
NullRisk == "null"

\* Date.prototype.toISOString and new Date(iso).getTime(): the ISO string
\* carries the instant as whole seconds and a three-digit millisecond field.
ToISOString(t) == [sec |-> t \div 1000, ms |-> t % 1000]
GetTime(iso) == iso.sec * 1000 + iso.ms

\* ---------------------------------------------------------------- variables
VARIABLES
  now,        \* Date.now()
  advances,   \* how often the clock has moved
  budget,     \* Budget.data of the Budget object under test
  nextLease,  \* the next fresh lease id
  lastCall,   \* history: the last Budget method called, with what it saw and returned
  lastRisk,   \* history: the risk level of the most recent adjustCap call
  okRun,      \* history: the current run of consecutive ok observations
  active,            \* IncidentTracker.active
  lastBundleAtByPid, \* IncidentTracker.lastBundleAtByPid
  nextIncident,      \* the next fresh incident id
  appendQueue,       \* appendIncidentLog calls whose appendFile has not completed
  incidentLog,       \* the lines of incidents.jsonl
  lastLevel,         \* history: the level of the most recent update call
  sawCritical,       \* history: a critical level was fed since the incident opened
  run,               \* history: id and startedAt of the incident the current non-ok run opened
  closedRuns,        \* history: id and startedAt of the incidents of the runs that ended
  lastMark,          \* history: per pid, when markBundleCaptured last included it
  budgetFile,        \* budget.json: the record it holds, Null when it does not exist
  tmpFile,           \* budget.json.tmp, the sibling every writeBudget writes first
  ticks,             \* the daemon's poll callbacks in flight
  lastFire,          \* when the interval timer last fired
  handlers,          \* the RPC / CLI budget handlers in flight
  bundles,           \* history: per incident, the bundles the daemon has written for it
  granted,           \* history: the leases of the acquires that returned granted
  released,          \* history: the lease ids of the releases that succeeded
  fires,             \* how often the interval timer has fired
  calls,             \* how many RPC / CLI budget calls were made
  lastWrite,         \* history: who last replaced budget.json, and the cap the daemon last wrote
  stateFile,         \* state.json: the record it holds, Null when it does not exist
  stateBefore,       \* history: the record state.json held before its last replacement
  stateTmp,          \* state.json.tmp, the sibling every writeState writes first
  summaries,         \* history: per poll callback, the budgetSummary it computed
  storeTmp,          \* the text of budget.json.tmp under concurrent writeBudget calls, Null when absent
  storeDest,         \* the text of budget.json under concurrent writeBudget calls, Null when absent
  writers,           \* per writer, how far its writeBudget call has come
  written,           \* history: the records handed to writeBudget
  lastRead,          \* history: what the last readBudget call found and returned
  processFirstSeenAt,  \* the daemon's processFirstSeenAt
  compositeQuietSince, \* the daemon's compositeQuietSince
  logMtime,            \* mtime of the most recently modified log file, NoTime without logs
  lastPoll,            \* history: the signals and the assessment of the last poll
  runs,                \* history: when the current runs of like polls started
  lastAssess,          \* history: the last direct assessHangRisk call and its result
  lastArgs,            \* history: the arguments of the last Budget call, the leases it found, its result
  releaseCalls,        \* history: the lease ids release was called with
  lastGrant,           \* history: the granted acquire that no other Budget call has followed yet
  nudge,               \* the guardian_nudge call in flight
  nudgeState,          \* state.json as the nudge calls find it, Null when it does not exist
  stateVersion,        \* history: how often state.json has been replaced
  nudgeLog,            \* history: per finished nudge call, the state.json it read and what it did
  daemonUp,            \* the daemon process is running
  tickLog,             \* history: how the poll callbacks ended: the step that failed, state.json written or not
  reader,              \* the readBudget call in flight
  backups,             \* the budget.json.corrupt.<epoch> files: epoch and text
  lastGet,             \* history: what the last read found and answered if guardian_budget_get made it
  captures,            \* history: the bundle captures the poll callbacks started, and how they ended
  detected,            \* history: the last risk level assessHangRisk produced in the daemon, and its number
  observed,            \* history: the last risk level handed to incidents.update, and its number
  toolCall,            \* the guardian_status / guardian_recovery_plan call in flight
  toolCalls,           \* how many of these calls were made
  lastTool,            \* history: what the last finished call found in state.json and answered
  watchdog,            \* the Watchdog object: config, stopped, pollTimer, child, state
  running,             \* the child processes that are alive, by spawn number
  signalled,           \* history: the children that were sent SIGTERM
  polls,               \* pollCheck calls waiting in captureBundle
  crashes,             \* handleCrash calls waiting in captureBundle or writeJournalEntry
  timers               \* restart timers set by handleCrash and not yet fired

clockVars == <<now, advances>>
budgetVars == <<budget, nextLease, lastCall, lastRisk, okRun>>
trackerVars == <<active, lastBundleAtByPid, nextIncident, appendQueue, incidentLog,
                 lastLevel, sawCritical, run, closedRuns, lastMark>>
sysVars == <<budgetFile, tmpFile, ticks, lastFire, handlers, bundles, granted, released,
             fires, calls, lastWrite, stateFile, stateBefore, stateTmp, summaries>>
storeVars == <<storeTmp, storeDest, writers, written, lastRead>>
detVars == <<processFirstSeenAt, compositeQuietSince, logMtime, lastPoll, runs, lastAssess>>
leaseVars == <<lastArgs, releaseCalls, lastGrant>>
nudgeVars == <<nudge, nudgeState, stateVersion, nudgeLog>>
faultVars == <<daemonUp, tickLog>>
readVars == <<reader, backups, lastGet>>
captureVars == <<captures>>
orderVars == <<detected, observed>>
toolVars == <<toolCall, toolCalls, lastTool>>
wdVars == <<watchdog, running, signalled, polls, crashes, timers>>
vars == <<clockVars, budgetVars, trackerVars, sysVars, storeVars, detVars, leaseVars,
         nudgeVars, faultVars, readVars,
         captureVars,
         orderVars,
         toolVars,
         wdVars>>

\* --------------------------------------------------------------- the clock
AdvanceBy(D) ==
  /\ advances < MaxAdvances
  /\ \E d \in D : now' = now + d
  /\ advances' = advances + 1

\* ------------------------------------------------------------ budget-store
emptyBudget(t) ==
  [ currentCap |-> baseCap,
    baseCap |-> baseCap,
    leases |-> << >>,
    capSetByRisk |-> NullRisk,
    capChangedAt |-> ToISOString(t),
    okSinceAt |-> Null ]

\* ------------------------------------------------------------------ Budget
\* The numbers of the program are IEEE doubles: parseInt of a string without
\* digits is NaN (the CLI hands `budget acquire <slots> --ttl <seconds>` to
\* acquire through parseInt).  NaN is a value apart from every number the model
\* uses; every comparison with it is false and every sum with it is NaN.
NaN == -1000000
IsNaN(x) == x = NaN
Add(a, b) == IF IsNaN(a) \/ IsNaN(b) THEN NaN ELSE a + b
Leq(a, b) == ~IsNaN(a) /\ ~IsNaN(b) /\ a <= b
Gt(a, b) == ~IsNaN(a) /\ ~IsNaN(b) /\ a > b

Max(a, b) == IF a >= b THEN a ELSE b

\* Math.max(a, b)
MathMax(a, b) == IF IsNaN(a) \/ IsNaN(b) THEN NaN ELSE Max(a, b)

\* leases.reduce((sum, l) => sum + l.slots, 0)
RECURSIVE SumSlots(_)
SumSlots(ls) ==
  IF ls = << >> THEN 0 ELSE Add(SumSlots(SubSeq(ls, 1, Len(ls) - 1)), ls[Len(ls)].slots)

slotsInUse(d) == SumSlots(d.leases)

\* Mutant: the slots held by leases are not subtracted.
slotsAvailable_IgnoresInUse(d) == Max(0, d.currentCap)

slotsAvailable(d) == MathMax(0, Add(d.currentCap, IF IsNaN(slotsInUse(d)) THEN NaN ELSE -slotsInUse(d)))

\* Mutant: a warn or critical observation lowers the cap by warnCap or
\* criticalCap instead of setting it.
AdjustCapFields_LowersBy(d, riskLevel, t) ==
  IF riskLevel = "critical" THEN
    [d EXCEPT !.currentCap = Max(0, @ - criticalCap), !.okSinceAt = Null,
              !.capSetByRisk = "critical"]
  ELSE IF riskLevel = "warn" THEN
    [d EXCEPT !.currentCap = Max(0, @ - warnCap), !.okSinceAt = Null,
              !.capSetByRisk = "warn"]
  ELSE
    LET started == IF d.okSinceAt = Null THEN [d EXCEPT !.okSinceAt = ToISOString(t)] ELSE d
        elapsed == (t - GetTime(started.okSinceAt)) >= hysteresisSeconds * 1000
    IN IF elapsed
         THEN [started EXCEPT !.currentCap = started.baseCap, !.capSetByRisk = NullRisk]
         ELSE started

\* Mutant: a warn or critical observation keeps okSinceAt, so the clock of an
\* earlier ok run goes on.
AdjustCapFields_KeepsClock(d, riskLevel, t) ==
  IF riskLevel = "critical" THEN
    [d EXCEPT !.currentCap = criticalCap, !.capSetByRisk = "critical"]
  ELSE IF riskLevel = "warn" THEN
    [d EXCEPT !.currentCap = warnCap, !.capSetByRisk = "warn"]
  ELSE
    LET started == IF d.okSinceAt = Null THEN [d EXCEPT !.okSinceAt = ToISOString(t)] ELSE d
        elapsed == (t - GetTime(started.okSinceAt)) >= hysteresisSeconds * 1000
    IN IF elapsed
         THEN [started EXCEPT !.currentCap = started.baseCap, !.capSetByRisk = NullRisk]
         ELSE started

\* Mutant: the restoration leaves capSetByRisk as it was.
AdjustCapFields_KeepsRisk(d, riskLevel, t) ==
  IF riskLevel = "critical" THEN
    [d EXCEPT !.currentCap = criticalCap, !.okSinceAt = Null, !.capSetByRisk = "critical"]
  ELSE IF riskLevel = "warn" THEN
    [d EXCEPT !.currentCap = warnCap, !.okSinceAt = Null, !.capSetByRisk = "warn"]
  ELSE
    LET started == IF d.okSinceAt = Null THEN [d EXCEPT !.okSinceAt = ToISOString(t)] ELSE d
        elapsed == (t - GetTime(started.okSinceAt)) >= hysteresisSeconds * 1000
    IN IF elapsed
         THEN [started EXCEPT !.currentCap = started.baseCap]
         ELSE started

\* Mutant: the restoration clears okSinceAt as well.
AdjustCapFields_ClearsClock(d, riskLevel, t) ==
  IF riskLevel = "critical" THEN
    [d EXCEPT !.currentCap = criticalCap, !.okSinceAt = Null, !.capSetByRisk = "critical"]
  ELSE IF riskLevel = "warn" THEN
    [d EXCEPT !.currentCap = warnCap, !.okSinceAt = Null, !.capSetByRisk = "warn"]
  ELSE
    LET started == IF d.okSinceAt = Null THEN [d EXCEPT !.okSinceAt = ToISOString(t)] ELSE d
        elapsed == (t - GetTime(started.okSinceAt)) >= hysteresisSeconds * 1000
    IN IF elapsed
         THEN [started EXCEPT !.currentCap = started.baseCap, !.capSetByRisk = NullRisk,
                              !.okSinceAt = Null]
         ELSE started

\* Mutant: a critical observation sets the cap and leaves capSetByRisk as it
\* was.
AdjustCapFields_CriticalKeepsRisk(d, riskLevel, t) ==
  IF riskLevel = "critical" THEN
    [d EXCEPT !.currentCap = criticalCap, !.okSinceAt = Null]
  ELSE IF riskLevel = "warn" THEN
    [d EXCEPT !.currentCap = warnCap, !.okSinceAt = Null, !.capSetByRisk = "warn"]
  ELSE
    LET started == IF d.okSinceAt = Null THEN [d EXCEPT !.okSinceAt = ToISOString(t)] ELSE d
        elapsed == (t - GetTime(started.okSinceAt)) >= hysteresisSeconds * 1000
    IN IF elapsed
         THEN [started EXCEPT !.currentCap = started.baseCap, !.capSetByRisk = NullRisk]
         ELSE started

\* The cap, okSinceAt and capSetByRisk that adjustCap's branches assign.
AdjustCapFields(d, riskLevel, t) ==
  IF riskLevel = "critical" THEN
    [d EXCEPT !.currentCap = criticalCap, !.okSinceAt = Null, !.capSetByRisk = "critical"]
  ELSE IF riskLevel = "warn" THEN
    [d EXCEPT !.currentCap = warnCap, !.okSinceAt = Null, !.capSetByRisk = "warn"]
  ELSE
    LET started == IF d.okSinceAt = Null THEN [d EXCEPT !.okSinceAt = ToISOString(t)] ELSE d
        \* okDuration >= hysteresisSeconds, with okDuration = (now - okSinceAt) / 1000
        elapsed == (t - GetTime(started.okSinceAt)) >= hysteresisSeconds * 1000
    IN IF elapsed
         THEN [started EXCEPT !.currentCap = started.baseCap, !.capSetByRisk = NullRisk]
         ELSE started

adjustCap(d, riskLevel, t) ==
  LET a == AdjustCapFields(d, riskLevel, t)
      changed == a.currentCap # d.currentCap
  IN [ data |-> IF changed THEN [a EXCEPT !.capChangedAt = ToISOString(t)] ELSE a,
       changed |-> changed ]

\* new Date(now.getTime() + ttlSeconds * 1000).toISOString() throws a
\* RangeError for an invalid time, before the lease is pushed.
acquire(d, n, ttlSeconds, reason, t, id) ==
  IF Leq(n, 0) THEN
    [data |-> d, granted |-> FALSE, lease |-> Null, reason |-> "Slots must be > 0"]
  ELSE IF Leq(ttlSeconds, 0) THEN
    [data |-> d, granted |-> FALSE, lease |-> Null, reason |-> "TTL must be > 0"]
  ELSE IF Gt(n, slotsAvailable(d)) THEN
    [data |-> d, granted |-> FALSE, lease |-> Null, reason |-> "Requested more than available"]
  ELSE IF IsNaN(ttlSeconds) THEN
    [data |-> d, granted |-> FALSE, lease |-> Null, reason |-> "RangeError: Invalid time value"]
  ELSE
    LET lease == [ id |-> id, slots |-> n, reason |-> reason,
                   grantedAt |-> ToISOString(t),
                   expiresAt |-> ToISOString(t + ttlSeconds * 1000) ]
    IN [ data |-> [d EXCEPT !.leases = Append(@, lease)],
         granted |-> TRUE, lease |-> lease, reason |-> "Granted" ]

\* leases.findIndex(l => l.id === id): the first index, 0 for none.
FindIndex(ls, id) ==
  IF \E i \in 1..Len(ls) : ls[i].id = id
    THEN CHOOSE i \in 1..Len(ls) :
           /\ ls[i].id = id
           /\ \A j \in 1..(i - 1) : ls[j].id # id
    ELSE 0

\* Mutant: the first lease is removed, whichever was found.
Splice_First(ls, idx) == Tail(ls)

\* leases.splice(idx, 1)
Splice(ls, idx) == SubSeq(ls, 1, idx - 1) \o SubSeq(ls, idx + 1, Len(ls))

\* Mutant: release reports the lease it found but leaves it in the list.
release_KeepsLease(d, id) ==
  [data |-> d, released |-> FindIndex(d.leases, id) # 0]

release(d, id) ==
  LET idx == FindIndex(d.leases, id)
  IN IF idx = 0
       THEN [data |-> d, released |-> FALSE]
       ELSE [data |-> [d EXCEPT !.leases = Splice(@, idx)], released |-> TRUE]

\* Mutant: a lease is kept at the instant it expires.
LeaseLive_Inclusive(l, t) == GetTime(l.expiresAt) >= t

\* new Date(l.expiresAt).getTime() > now
LeaseLive(l, t) == GetTime(l.expiresAt) > t

expireLeases(d, t) ==
  LET kept == SelectSeq(d.leases, LAMBDA l : LeaseLive(l, t))
  IN [ data |-> [d EXCEPT !.leases = kept],
       count |-> Len(d.leases) - Len(kept) ]

\* --------------------------------------------------------- IncidentTracker
\* The identifiers randomUUID().slice(0, 8) yields for incidents, in the order
\* they are drawn.

\* Math.round(x / 1000) of a whole number of milliseconds.
RoundSeconds(x) == (x + 500) \div 1000

summarize(d, t) ==
  [ currentCap |-> d.currentCap,
    baseCap |-> d.baseCap,
    slotsInUse |-> slotsInUse(d),
    slotsAvailable |-> slotsAvailable(d),
    activeLeases |-> Len(d.leases),
    capSetByRisk |-> d.capSetByRisk,
    okSinceAt |-> d.okSinceAt,
    hysteresisRemainingSeconds |->
      IF d.okSinceAt # Null /\ d.currentCap < d.baseCap
        THEN Max(0, RoundSeconds(hysteresisSeconds * 1000 - (t - GetTime(d.okSinceAt))))
        ELSE 0 ]

IncidentIds == {1, 2}

Pids == {1000, 2000}
Reasons == {"No activity", "Disk low"}
NullPath == "null"

EmptyMap == [p \in {} |-> 0]

\* lastBundleAtByPid.get(pid) ?? 0
MapGet(m, pid) == IF pid \in DOMAIN m THEN m[pid] ELSE 0

\* Mutant: every update overwrites peakLevel with the level it is given.
update_PeakFollowsLevel(a, level, reason, t, id) ==
  IF level = "ok" THEN
    IF a # Null
      THEN LET closed == [a EXCEPT !.closedAt = ToISOString(t)]
           IN [active |-> Null, closed |-> closed, ret |-> closed, opened |-> FALSE]
      ELSE [active |-> Null, closed |-> Null, ret |-> Null, opened |-> FALSE]
  ELSE
    IF a = Null
      THEN LET inc == [ id |-> id, startedAt |-> ToISOString(t), closedAt |-> Null,
                        reason |-> reason, peakLevel |-> level,
                        bundleCaptured |-> FALSE, bundlePath |-> NullPath ]
           IN [active |-> inc, closed |-> Null, ret |-> inc, opened |-> TRUE]
      ELSE LET esc == [a EXCEPT !.peakLevel = level, !.reason = reason]
           IN [active |-> esc, closed |-> Null, ret |-> esc, opened |-> FALSE]

\* Mutant: an ok level logs the incident but leaves it active.
update_OkKeepsActive(a, level, reason, t, id) ==
  IF level = "ok" THEN
    IF a # Null
      THEN LET closed == [a EXCEPT !.closedAt = ToISOString(t)]
           IN [active |-> a, closed |-> closed, ret |-> closed, opened |-> FALSE]
      ELSE [active |-> Null, closed |-> Null, ret |-> Null, opened |-> FALSE]
  ELSE
    IF a = Null
      THEN LET inc == [ id |-> id, startedAt |-> ToISOString(t), closedAt |-> Null,
                        reason |-> reason, peakLevel |-> level,
                        bundleCaptured |-> FALSE, bundlePath |-> NullPath ]
           IN [active |-> inc, closed |-> Null, ret |-> inc, opened |-> TRUE]
      ELSE LET esc == [a EXCEPT
                        !.peakLevel = IF level = "critical" /\ @ # "critical"
                                        THEN "critical" ELSE @,
                        !.reason = reason]
           IN [active |-> esc, closed |-> Null, ret |-> esc, opened |-> FALSE]

\* Mutant: a critical level on an active warn incident opens a new incident.
update_ReopensOnEscalation(a, level, reason, t, id) ==
  IF level = "ok" THEN
    IF a # Null
      THEN LET closed == [a EXCEPT !.closedAt = ToISOString(t)]
           IN [active |-> Null, closed |-> closed, ret |-> closed, opened |-> FALSE]
      ELSE [active |-> Null, closed |-> Null, ret |-> Null, opened |-> FALSE]
  ELSE
    IF a = Null \/ (level = "critical" /\ a.peakLevel # "critical")
      THEN LET inc == [ id |-> id, startedAt |-> ToISOString(t), closedAt |-> Null,
                        reason |-> reason, peakLevel |-> level,
                        bundleCaptured |-> FALSE, bundlePath |-> NullPath ]
           IN [active |-> inc, closed |-> Null, ret |-> inc, opened |-> TRUE]
      ELSE LET esc == [a EXCEPT !.reason = reason]
           IN [active |-> esc, closed |-> Null, ret |-> esc, opened |-> FALSE]

\* IncidentTracker.update: the new active incident, the incident handed to
\* appendIncidentLog (Null for none), the value returned, and whether the fresh
\* id was used.
update(a, level, reason, t, id) ==
  IF level = "ok" THEN
    IF a # Null
      THEN LET closed == [a EXCEPT !.closedAt = ToISOString(t)]
           IN [active |-> Null, closed |-> closed, ret |-> closed, opened |-> FALSE]
      ELSE [active |-> Null, closed |-> Null, ret |-> Null, opened |-> FALSE]
  ELSE IF level \in {"warn", "critical"} THEN
    IF a = Null
      THEN LET inc == [ id |-> id, startedAt |-> ToISOString(t), closedAt |-> Null,
                        reason |-> reason, peakLevel |-> level,
                        bundleCaptured |-> FALSE, bundlePath |-> NullPath ]
           IN [active |-> inc, closed |-> Null, ret |-> inc, opened |-> TRUE]
      ELSE LET esc == [a EXCEPT
                        !.peakLevel = IF level = "critical" /\ @ # "critical"
                                        THEN "critical" ELSE @,
                        !.reason = reason]
           IN [active |-> esc, closed |-> Null, ret |-> esc, opened |-> FALSE]
  ELSE [active |-> a, closed |-> Null, ret |-> a, opened |-> FALSE]

\* Mutant: the cooldown test is off by one tick of the comparison (<= for <).
shouldCaptureBundle_CooldownInclusive(a, m, pids, t) ==
  IF a = Null THEN FALSE
  ELSE IF a.peakLevel # "critical" THEN FALSE
  ELSE IF a.bundleCaptured THEN FALSE
  ELSE ~ \E pid \in pids : t - MapGet(m, pid) <= bundleCooldownSeconds * 1000

\* Mutant: the gate does not look at the incident's peak level.
shouldCaptureBundle_IgnoresPeak(a, m, pids, t) ==
  IF a = Null THEN FALSE
  ELSE IF a.bundleCaptured THEN FALSE
  ELSE ~ \E pid \in pids : t - MapGet(m, pid) < bundleCooldownSeconds * 1000

shouldCaptureBundle(a, m, pids, t) ==
  IF a = Null THEN FALSE
  ELSE IF a.peakLevel # "critical" THEN FALSE
  ELSE IF a.bundleCaptured THEN FALSE
  ELSE ~ \E pid \in pids : t - MapGet(m, pid) < bundleCooldownSeconds * 1000

markBundleCaptured(a, m, bundlePath, pids, t) ==
  [ active |-> IF a # Null
                 THEN [a EXCEPT !.bundleCaptured = TRUE, !.bundlePath = bundlePath]
                 ELSE a,
    map |-> [p \in (DOMAIN m) \cup pids |-> IF p \in pids THEN t ELSE m[p]] ]

\* ----------------------------------- the IncidentTracker object under test
TrackerInit ==
  /\ active = Null
  /\ lastBundleAtByPid = EmptyMap
  /\ nextIncident = 1
  /\ appendQueue = << >>
  /\ incidentLog = << >>
  /\ lastLevel = "none"
  /\ sawCritical = FALSE
  /\ run = Null
  /\ closedRuns = << >>
  /\ lastMark = [p \in Pids |-> -1]

Key(inc) == [id |-> inc.id, startedAt |-> inc.startedAt]

\* One call of update, with what the history variables record of it.
CallUpdate(level, reason) ==
  LET r == update(active, level, reason, now, nextIncident)
  IN /\ (r.opened => nextIncident \in IncidentIds)
     /\ active' = r.active
     /\ nextIncident' = IF r.opened THEN nextIncident + 1 ELSE nextIncident
     /\ appendQueue' = IF r.closed # Null THEN Append(appendQueue, r.closed) ELSE appendQueue
     /\ lastLevel' = level
     /\ sawCritical' = IF level = "ok" THEN FALSE
                       ELSE IF lastLevel \in {"warn", "critical"}
                         THEN (sawCritical \/ level = "critical")
                         ELSE level = "critical"
     /\ run' = IF level = "ok" THEN Null
               ELSE IF lastLevel \in {"warn", "critical"} THEN run
               ELSE IF r.ret # Null THEN Key(r.ret) ELSE Null
     /\ closedRuns' = IF level = "ok" /\ run # Null THEN Append(closedRuns, run) ELSE closedRuns

\* One call of markBundleCaptured.
CallMarkBundleCaptured(bundlePath, pids) ==
  LET r == markBundleCaptured(active, lastBundleAtByPid, bundlePath, pids, now)
  IN /\ active' = r.active
     /\ lastBundleAtByPid' = r.map
     /\ lastMark' = [p \in Pids |-> IF p \in pids THEN now ELSE lastMark[p]]

TUpdate ==
  \E level \in RiskLevels, reason \in Reasons :
    /\ CallUpdate(level, reason)
    /\ UNCHANGED <<wdVars, toolVars, orderVars, captureVars, readVars, faultVars, nudgeVars, leaseVars, storeVars, detVars, lastBundleAtByPid, incidentLog, lastMark, clockVars, budgetVars, sysVars>>

TMarkBundleCaptured ==
  \E pids \in SUBSET Pids :
    /\ CallMarkBundleCaptured("bundle.zip", pids)
    /\ UNCHANGED <<wdVars, toolVars, orderVars, captureVars, readVars, faultVars, nudgeVars, leaseVars, storeVars, detVars, nextIncident, appendQueue, incidentLog, lastLevel, sawCritical, run,
                   closedRuns, clockVars, budgetVars, sysVars>>

\* appendFile of one pending appendIncidentLog call completes.
AppendLands ==
  \E i \in 1..Len(appendQueue) :
    /\ incidentLog' = Append(incidentLog, appendQueue[i])
    /\ appendQueue' = Splice(appendQueue, i)

TAppendLands ==
  /\ AppendLands
  /\ UNCHANGED <<wdVars, toolVars, orderVars, captureVars, readVars, faultVars, nudgeVars, leaseVars, storeVars, detVars, active, lastBundleAtByPid, nextIncident, lastLevel, sawCritical, run,
                 closedRuns, lastMark, clockVars, budgetVars, sysVars>>

\* Half the bundle cooldown: two steps reach the cooldown exactly.
TrackerDeltas == {150000}

TAdvance == AdvanceBy(TrackerDeltas) /\ UNCHANGED <<wdVars, toolVars, orderVars, captureVars, readVars, faultVars, nudgeVars, leaseVars, storeVars, detVars, budgetVars, trackerVars, sysVars>>

\* -------------------------------- the watch daemon and the budget handlers
\* How many RPC / CLI budget handlers are in flight at once.
MaxHandlers == 1
\* How often the interval timer fires in one behaviour of the daemon alone,
\* and in one behaviour of the daemon beside the budget handlers.
MaxFires == 2
MaxSharedFires == 1
\* How many RPC / CLI budget calls are made in one behaviour.
MaxCalls == 2

\* A poll callback between two awaits.  pc is the await it is suspended at:
\*   "probing"    the probes of lines 47-54
\*   "bundling"   generateBundle (line 102)
\*   "readBudget" writeJournalEntry, fixLogs and readBudget (lines 105-126)
\*   "writeTmp"   writeFile of budget.json.tmp inside writeBudget
\*   "rename"     rename of budget.json.tmp to budget.json inside writeBudget
\*   "writeState" getHandleCounts and writeFile of state.json.tmp inside writeState
\*   "renameState" rename of state.json.tmp to state.json inside writeState
NewTick(t) ==
  [ pc |-> "probing", firedAt |-> t, at |-> 0, level |-> "ok", pids |-> {},
    incident |-> 0, data |-> Null ]

IdleHandler ==
  [ kind |-> "idle", pc |-> "idle", n |-> 0, ttl |-> 0, id |-> 0, data |-> Null,
    lease |-> Null, ok |-> FALSE ]

\* currentCap, okSinceAt and capSetByRisk of a budget record.
CapFields(d) ==
  [currentCap |-> d.currentCap, okSinceAt |-> d.okSinceAt, capSetByRisk |-> d.capSetByRisk]

\* by: the writer whose rename last replaced budget.json; own: the sibling file
\* it moved held what that writer had written; daemonCap: the cap fields of the
\* last adjustment the daemon brought into budget.json.
NoWrite == [by |-> "none", own |-> FALSE, daemonCap |-> Null]

SysInit ==
  /\ budgetFile = Null
  /\ tmpFile = Null
  /\ ticks = {}
  /\ lastFire = StartTime
  /\ handlers = [h \in 1..MaxHandlers |-> IdleHandler]
  /\ bundles = [i \in IncidentIds |-> 0]
  /\ granted = {}
  /\ released = {}
  /\ fires = 0
  /\ calls = 0
  /\ lastWrite = NoWrite
  /\ stateFile = Null
  /\ stateBefore = Null
  /\ stateTmp = Null
  /\ summaries = {}

HandlerSlots == {1, 3}
\* ttlSeconds of the acquire calls, in seconds: one poll interval.
HandlerTtls == {2}

\* The process lists a tick's probe finds.
SysPidSets == {{}, {1000}}

\* hangRisk.reasons.join('; ') || 'healthy' (line 95)
ReasonOf(level) == IF level = "ok" THEN "healthy" ELSE "No activity"

\* readBudget() ?? emptyBudget()
ReadOrEmpty(file, t) == IF file = Null THEN emptyBudget(t) ELSE file

\* How a poll callback ended: the await whose rejection the catch of line 165
\* took ("none" when the callback ran to its end), and whether the callback
\* replaced state.json.
TickEnded(failed, wroteState) == [failed |-> failed, wroteState |-> wroteState]

FaultInit ==
  /\ daemonUp = TRUE
  /\ tickLog = {}

\* What is recorded of a bundle capture: the callback that started it (by its
\* firing time), the active incident's id and peak level and the callback's own
\* level at that moment, whether an earlier capture for the incident had failed,
\* how it ended, and whether its end left the tracker as it was.
NewCapture(by, incident, level, retry) ==
  [ by |-> by, incident |-> incident.id, level |-> level, peak |-> incident.peakLevel,
    retry |-> retry, state |-> "running", kept |-> TRUE ]

FailedFor(id) == \E c \in captures : c.incident = id /\ c.state = "failed"

CaptureEnds(by, state, kept) ==
  { IF c.by = by /\ c.state = "running" THEN [c EXCEPT !.state = state, !.kept = kept] ELSE c :
      c \in captures }

\* n: how many levels came before and including this one; by: the callback
\* (its firing time) in which it was produced or handed over.
NoLevel == [n |-> 0, by |-> 0, level |-> "none"]

OrderInit ==
  /\ detected = NoLevel
  /\ observed = NoLevel

\* Mutant: the tracker is fed the level the previous poll produced.
FedLevel_Previous(hangRisk) == IF detected.n = 0 THEN "ok" ELSE detected.level

\* The level argument of incidents.update (line 96).
FedLevel(hangRisk) == hangRisk.level

CaptureInit == captures = {}

\* setInterval fires the callback: it starts its probes (lines 43-54).
TickFire(limit) ==
  /\ daemonUp
  /\ now - lastFire >= watchdogPollMs
  /\ fires < limit
  /\ fires' = fires + 1
  /\ lastFire' = now
  /\ ticks' = ticks \cup {NewTick(now)}
  /\ UNCHANGED <<wdVars, toolVars, orderVars, captureVars, readVars, faultVars, nudgeVars, leaseVars, storeVars, detVars, stateFile, stateBefore, stateTmp, summaries, lastWrite, clockVars, budgetVars, trackerVars, budgetFile, tmpFile, handlers,
                 bundles, granted, released, calls>>

\* The probes resolve and lines 57-99 run: the detector's level for this tick
\* (critical only with a process past its grace window), incidents.update and
\* the capture gate.
TickObserve ==
  \E tk \in ticks, level \in RiskLevels, pids \in SysPidSets :
    LET hangRisk == [level |-> level]
        reason == ReasonOf(hangRisk.level)
        fed == FedLevel(hangRisk)
        r == update(active, fed, reason, now, nextIncident)
        capture == shouldCaptureBundle(r.active, lastBundleAtByPid, pids, now)
        next == [tk EXCEPT !.pc = IF capture THEN "bundling" ELSE "readBudget",
                           !.at = now, !.level = level, !.pids = pids,
                           !.incident = IF r.ret # Null THEN r.ret.id ELSE 0]
    IN /\ tk.pc = "probing"
       /\ level = "critical" => pids # {}
       /\ detected' = [n |-> detected.n + 1, by |-> tk.firedAt, level |-> hangRisk.level]
       /\ CallUpdate(fed, reason)
       /\ observed' = [n |-> observed.n + 1, by |-> tk.firedAt, level |-> fed]
       /\ ticks' = (ticks \ {tk}) \cup {next}
       /\ captures' = IF capture
                        THEN captures \cup {NewCapture(tk.firedAt, r.active, level,
                                                       FailedFor(r.active.id))}
                        ELSE captures
       /\ UNCHANGED <<wdVars, toolVars, readVars, faultVars, nudgeVars, leaseVars, storeVars, detVars, stateFile, stateBefore, stateTmp, summaries, lastWrite, lastBundleAtByPid, incidentLog, lastMark, clockVars, budgetVars,
                      budgetFile, tmpFile, lastFire, handlers, bundles, granted, released, fires, calls>>

\* generateBundle resolves: markBundleCaptured (line 103), then the journal entry.
TickBundleDone ==
  \E tk \in ticks :
    /\ tk.pc = "bundling"
    /\ CallMarkBundleCaptured("bundle.zip", tk.pids)
    /\ bundles' = [bundles EXCEPT ![tk.incident] = @ + 1]
    /\ ticks' = (ticks \ {tk}) \cup {[tk EXCEPT !.pc = "readBudget"]}
    /\ captures' = CaptureEnds(tk.firedAt, "written", TRUE)
    /\ UNCHANGED <<wdVars, toolVars, orderVars, readVars, faultVars, nudgeVars, leaseVars, storeVars, detVars, stateFile, stateBefore, stateTmp, summaries, lastWrite, nextIncident, appendQueue, incidentLog, lastLevel, sawCritical, run,
                   closedRuns, clockVars, budgetVars, budgetFile, tmpFile, lastFire,
                   handlers, granted, released, fires, calls>>

\* Mutant: the catch marks the incident as captured all the same.
CaptureFailed_MarksCaptured(a, m) ==
  [ active |-> IF a # Null THEN [a EXCEPT !.bundleCaptured = TRUE] ELSE a, map |-> m ]

\* The catch of lines 111-113: it logs the error; markBundleCaptured (line 103)
\* was not reached, so the tracker is as it was.
CaptureFailed(a, m) == [active |-> a, map |-> m]

\* generateBundle rejects: the catch of line 111 logs it and the tick goes on.
TickBundleFails ==
  \E tk \in ticks :
    /\ tk.pc = "bundling"
    /\ ticks' = (ticks \ {tk}) \cup {[tk EXCEPT !.pc = "readBudget"]}
    /\ active' = CaptureFailed(active, lastBundleAtByPid).active
    /\ lastBundleAtByPid' = CaptureFailed(active, lastBundleAtByPid).map
    /\ captures' = CaptureEnds(tk.firedAt, "failed",
                               active' = active /\ lastBundleAtByPid' = lastBundleAtByPid)
    /\ UNCHANGED <<wdVars, toolVars, orderVars, readVars, faultVars, nudgeVars, leaseVars, storeVars, detVars, stateFile, stateBefore, stateTmp, summaries, lastWrite, clockVars, budgetVars, nextIncident, appendQueue, incidentLog, lastLevel,
                   sawCritical, run, closedRuns, lastMark, budgetFile, tmpFile, lastFire,
                   handlers, bundles, granted, released, fires, calls>>

\* readBudget resolves with what budget.json holds (line 126).
TickReadBudget ==
  \E tk \in ticks :
    /\ tk.pc = "readBudget"
    /\ ticks' = (ticks \ {tk}) \cup
                  {[tk EXCEPT !.pc = "writeTmp", !.data = ReadOrEmpty(budgetFile, now)]}
    /\ UNCHANGED <<wdVars, toolVars, orderVars, captureVars, readVars, faultVars, nudgeVars, leaseVars, storeVars, detVars, stateFile, stateBefore, stateTmp, summaries, lastWrite, clockVars, budgetVars, trackerVars, budgetFile, tmpFile, lastFire,
                   handlers, bundles, granted, released, fires, calls>>

\* Lines 127-133: expireLeases and adjustCap with the tick's own `now` and
\* level, then writeBudget's writeFile of the sibling file.
TickAdjusted(tk) == adjustCap(expireLeases(tk.data, tk.at).data, tk.level, tk.at).data

TickWriteTmp ==
  \E tk \in ticks :
    /\ tk.pc = "writeTmp"
    /\ tmpFile' = TickAdjusted(tk)
    /\ ticks' = (ticks \ {tk}) \cup {[tk EXCEPT !.pc = "rename", !.data = TickAdjusted(tk)]}
    /\ UNCHANGED <<wdVars, toolVars, orderVars, captureVars, readVars, faultVars, nudgeVars, leaseVars, storeVars, detVars, stateFile, stateBefore, stateTmp, summaries, lastWrite, clockVars, budgetVars, trackerVars, budgetFile, lastFire, handlers,
                   bundles, granted, released, fires, calls>>

\* writeBudget's rename: it moves whatever the sibling file holds now; with the
\* sibling already moved away by another writer it throws and the catch of
\* line 165 ends the tick.
TickRename ==
  \E tk \in ticks :
    /\ tk.pc = "rename"
    /\ IF tmpFile = Null
         THEN UNCHANGED <<budgetFile, tmpFile, lastWrite>>
         ELSE /\ budgetFile' = tmpFile
              /\ tmpFile' = Null
              /\ lastWrite' = [by |-> "daemon", own |-> tmpFile = tk.data,
                               daemonCap |-> IF tmpFile = tk.data THEN CapFields(tk.data)
                                             ELSE lastWrite.daemonCap]
    /\ ticks' = IF tmpFile = Null THEN ticks \ {tk}
                 ELSE (ticks \ {tk}) \cup {[tk EXCEPT !.pc = "writeState"]}
    /\ tickLog' = IF tmpFile = Null THEN tickLog \cup {TickEnded("rename", FALSE)}
                   ELSE tickLog
    /\ UNCHANGED <<wdVars, toolVars, orderVars, captureVars, readVars, daemonUp, nudgeVars, leaseVars, storeVars, detVars, clockVars, budgetVars, trackerVars, lastFire, handlers, bundles,
                   granted, released, fires, calls, stateFile, stateBefore, stateTmp, summaries>>

\* Lines 136-160: getHandleCounts resolves, the state record is built from the
\* callback's own hangRisk and budget and from the tracker as it is now, and
\* writeState's writeFile writes the sibling file.
GuardianState(tk) ==
  [ by |-> tk.firedAt,
    hangRisk |-> [level |-> tk.level],
    activeIncident |-> active,
    budgetSummary |-> summarize(tk.data, tk.at) ]

TickWriteState ==
  \E tk \in ticks :
    /\ tk.pc = "writeState"
    /\ stateTmp' = GuardianState(tk)
    /\ summaries' = summaries \cup {[by |-> tk.firedAt, budgetSummary |-> summarize(tk.data, tk.at)]}
    /\ ticks' = (ticks \ {tk}) \cup {[tk EXCEPT !.pc = "renameState"]}
    /\ UNCHANGED <<wdVars, toolVars, orderVars, captureVars, readVars, faultVars, nudgeVars, leaseVars, storeVars, detVars, clockVars, budgetVars, trackerVars, budgetFile, tmpFile, lastFire,
                   handlers, bundles, granted, released, fires, calls, lastWrite, stateFile, stateBefore>>

\* writeState's rename: it moves whatever state.json.tmp holds now; with the
\* sibling already moved away by another callback it throws and the catch of
\* line 165 ends the tick.
TickRenameState ==
  \E tk \in ticks :
    /\ tk.pc = "renameState"
    /\ IF stateTmp = Null
         THEN UNCHANGED <<stateFile, stateBefore, stateTmp>>
         ELSE stateFile' = stateTmp /\ stateTmp' = Null /\ stateBefore' = stateFile
    /\ ticks' = ticks \ {tk}
    /\ tickLog' = tickLog \cup {IF stateTmp = Null THEN TickEnded("renameState", FALSE)
                                ELSE TickEnded("none", TRUE)}
    /\ UNCHANGED <<wdVars, toolVars, orderVars, captureVars, readVars, daemonUp, nudgeVars, leaseVars, storeVars, detVars, clockVars, budgetVars, trackerVars, budgetFile, tmpFile, lastFire,
                   handlers, bundles, granted, released, fires, calls, lastWrite, summaries>>


\* The awaits of the callback whose rejection reaches the catch of line 165:
\* the probes, fixLogs (line 119), writeBudget's writeFile and rename, and
\* writeState's writeFile and rename.  readBudget catches its own errors, and
\* generateBundle and writeJournalEntry reject into the catch of line 111.
OuterSteps == {"probing", "readBudget", "writeTmp", "rename", "writeState", "renameState"}

\* One of those awaits rejects: the catch logs the error when verbose and the
\* callback is over.  fixLogs runs only with hangRisk.diskLow (and autoFix), and
\* a low disk makes the level warn or critical.
TickStepFails ==
  \E tk \in ticks :
    /\ tk.pc \in OuterSteps
    /\ tk.pc = "readBudget" => tk.level \in {"warn", "critical"}
    /\ ticks' = ticks \ {tk}
    /\ tickLog' = tickLog \cup {TickEnded(tk.pc, FALSE)}
    /\ UNCHANGED <<wdVars, toolVars, orderVars, captureVars, readVars, daemonUp, clockVars, budgetVars, trackerVars, budgetFile, tmpFile,
                   lastFire, handlers, bundles, granted, released, fires, calls, lastWrite,
                   stateFile, stateBefore, stateTmp, summaries, storeVars, detVars, leaseVars, nudgeVars>>

\* What the runtime does with a promise that rejects and has no handler: since
\* Node 15 the rejection is raised as an uncaught exception and the process
\* exits; run with --unhandled-rejections=warn it prints a warning.
UnhandledRejection == {"exit", "warn"}

\* The appendFile (or mkdir) of an appendIncidentLog call rejects.  update
\* started the call without awaiting it and without a catch (part_006 line 41),
\* so the rejection reaches no handler.
SysAppendFails ==
  /\ daemonUp
  /\ appendQueue # << >>
  /\ \E i \in 1..Len(appendQueue), outcome \in UnhandledRejection :
       IF outcome = "exit"
         THEN /\ daemonUp' = FALSE
              /\ ticks' = {}
              /\ appendQueue' = << >>
         ELSE /\ appendQueue' = Splice(appendQueue, i)
              /\ UNCHANGED <<daemonUp, ticks>>
  /\ UNCHANGED <<wdVars, toolVars, orderVars, captureVars, readVars, tickLog, active, lastBundleAtByPid, nextIncident, incidentLog, lastLevel,
                 sawCritical, run, closedRuns, lastMark, clockVars, budgetVars, budgetFile,
                 tmpFile, lastFire, handlers, bundles, granted, released, fires, calls,
                 lastWrite, stateFile, stateBefore, stateTmp, summaries, storeVars, detVars, leaseVars,
                 nudgeVars>>

\* guardian_budget_acquire / `budget acquire` is called and its
\* readBudget() ?? emptyBudget() resolves.
RpcAcquireRead ==
  \E h \in 1..MaxHandlers, n \in HandlerSlots, ttl \in HandlerTtls :
    /\ handlers[h].pc = "idle"
    /\ calls < MaxCalls
    /\ calls' = calls + 1
    /\ handlers' = [handlers EXCEPT ![h] =
                      [IdleHandler EXCEPT !.kind = "acquire", !.pc = "writeTmp",
                                          !.n = n, !.ttl = ttl,
                                          !.data = ReadOrEmpty(budgetFile, now)]]
    /\ UNCHANGED <<wdVars, toolVars, orderVars, captureVars, readVars, faultVars, nudgeVars, leaseVars, storeVars, detVars, stateFile, stateBefore, stateTmp, summaries, lastWrite, clockVars, budgetVars, trackerVars, budgetFile, tmpFile, ticks,
                   lastFire, bundles, granted, released, fires>>

\* guardian_budget_release / `budget release` is called and its readBudget()
\* resolves; with no budget file it returns at once ("Budget not initialized").
RpcReleaseRead ==
  \E h \in 1..MaxHandlers, id \in 1..MaxLeases :
    /\ handlers[h].pc = "idle"
    /\ calls < MaxCalls
    /\ calls' = calls + 1
    /\ handlers' = [handlers EXCEPT ![h] =
                      IF budgetFile = Null
                        THEN IdleHandler
                        ELSE [IdleHandler EXCEPT !.kind = "release", !.pc = "writeTmp",
                                                 !.id = id, !.data = budgetFile]]
    /\ UNCHANGED <<wdVars, toolVars, orderVars, captureVars, readVars, faultVars, nudgeVars, leaseVars, storeVars, detVars, stateFile, stateBefore, stateTmp, summaries, lastWrite, clockVars, budgetVars, trackerVars, budgetFile, tmpFile, ticks,
                   lastFire, bundles, granted, released, fires>>

\* The handler's synchronous part (expireLeases and acquire, or release) and
\* writeBudget's writeFile of the sibling file.
RpcWriteTmp ==
  \E h \in 1..MaxHandlers :
    LET hd == handlers[h]
        acq == acquire(expireLeases(hd.data, now).data, hd.n, hd.ttl, "mcp-acquire",
                       now, nextLease)
        rel == release(hd.data, hd.id)
    IN /\ hd.pc = "writeTmp"
       /\ IF hd.kind = "acquire"
            THEN /\ acq.granted => nextLease <= MaxLeases
                 /\ tmpFile' = acq.data
                 /\ nextLease' = IF acq.granted THEN nextLease + 1 ELSE nextLease
                 /\ handlers' = [handlers EXCEPT ![h] =
                                   [hd EXCEPT !.pc = "rename", !.data = acq.data,
                                              !.lease = acq.lease, !.ok = acq.granted]]
            ELSE /\ tmpFile' = rel.data
                 /\ nextLease' = nextLease
                 /\ handlers' = [handlers EXCEPT ![h] =
                                   [hd EXCEPT !.pc = "rename", !.data = rel.data,
                                              !.ok = rel.released]]
       /\ UNCHANGED <<wdVars, toolVars, orderVars, captureVars, readVars, faultVars, nudgeVars, leaseVars, storeVars, detVars, stateFile, stateBefore, stateTmp, summaries, lastWrite, clockVars, budget, lastCall, lastRisk, okRun, trackerVars,
                      budgetFile, ticks, lastFire, bundles, granted, released,
                      fires, calls>>

\* writeBudget's rename, and the handler's answer: granted / released when the
\* write went through, an error when the rename found no sibling file.
RpcRename ==
  \E h \in 1..MaxHandlers :
    LET hd == handlers[h]
    IN /\ hd.pc = "rename"
       /\ IF tmpFile = Null
            THEN UNCHANGED <<budgetFile, tmpFile, granted, released, lastWrite>>
            ELSE /\ budgetFile' = tmpFile
                 /\ tmpFile' = Null
                 /\ lastWrite' = [lastWrite EXCEPT !.by = "rpc", !.own = tmpFile = hd.data]
                 /\ granted' = IF hd.kind = "acquire" /\ hd.ok
                                 THEN granted \cup {hd.lease} ELSE granted
                 /\ released' = IF hd.kind = "release" /\ hd.ok
                                  THEN released \cup {hd.id} ELSE released
       /\ handlers' = [handlers EXCEPT ![h] = IdleHandler]
       /\ UNCHANGED <<wdVars, toolVars, orderVars, captureVars, readVars, faultVars, nudgeVars, leaseVars, storeVars, detVars, stateFile, stateBefore, stateTmp, summaries, clockVars, budgetVars, trackerVars, ticks, lastFire, bundles, fires, calls>>

SysAppendLands ==
  /\ AppendLands
  /\ UNCHANGED <<wdVars, toolVars, orderVars, captureVars, readVars, faultVars, nudgeVars, leaseVars, storeVars, detVars, active, lastBundleAtByPid, nextIncident, lastLevel, sawCritical, run,
                 closedRuns, lastMark, clockVars, budgetVars, sysVars>>

\* One poll interval.
SysDeltas == {watchdogPollMs}

SysAdvance == AdvanceBy(SysDeltas) /\ UNCHANGED <<wdVars, toolVars, orderVars, captureVars, readVars, faultVars, nudgeVars, leaseVars, storeVars, detVars, budgetVars, trackerVars, sysVars>>


\* ------------------------------------- budget-store under concurrent callers
\* writeBudget and readBudget at the level of the file operations they await:
\* writeFile opens budget.json.tmp for writing (creating or truncating it) and
\* writes the text at offset 0; rename moves the file that is at the path.
\*
\* JSON.stringify(data): the text as a sequence of tokens in the order of the
\* object's keys: currentCap and baseCap, one token per lease, then
\* capSetByRisk, capChangedAt and okSinceAt with the closing brace.
RECURSIVE LeaseTokens(_)
LeaseTokens(ls) ==
  IF ls = << >> THEN << >>
  ELSE <<[k |-> "lease", v |-> Head(ls)]>> \o LeaseTokens(Tail(ls))

Stringify(d) ==
  <<[k |-> "head", currentCap |-> d.currentCap, baseCap |-> d.baseCap]>>
    \o LeaseTokens(d.leases)
    \o <<[k |-> "tail", capSetByRisk |-> d.capSetByRisk, capChangedAt |-> d.capChangedAt,
          okSinceAt |-> d.okSinceAt]>>

\* JSON.parse(content): it throws unless the text is one whole object.
WellFormed(text) ==
  /\ Len(text) >= 2
  /\ text[1].k = "head"
  /\ text[Len(text)].k = "tail"
  /\ \A i \in 2..(Len(text) - 1) : text[i].k = "lease"

Parse(text) ==
  [ currentCap |-> text[1].currentCap,
    baseCap |-> text[1].baseCap,
    leases |-> [i \in 1..(Len(text) - 2) |-> text[i + 1].v],
    capSetByRisk |-> text[Len(text)].capSetByRisk,
    capChangedAt |-> text[Len(text)].capChangedAt,
    okSinceAt |-> text[Len(text)].okSinceAt ]

\* A write of `text` at offset 0 into a file that holds `old`: what lay beyond
\* the end of the new text stays.
Overlay(old, text) ==
  IF Len(old) > Len(text) THEN text \o SubSeq(old, Len(text) + 1, Len(old)) ELSE text

\* The callers of writeBudget: the daemon's poll (watch-daemon.ts:133) and a
\* budget handler of the MCP server or the CLI (mcp-server.ts:289).
Writers == {"daemon", "handler"}

\* The records they hand to writeBudget: a budget without leases, one with a
\* granted lease, and one with the cap reduced.
StoreRecords ==
  LET empty == emptyBudget(StartTime)
  IN { empty,
       acquire(empty, 1, hysteresisSeconds, "batch", StartTime, 1).data,
       adjustCap(empty, "warn", StartTime).data }

\* pc: "idle", "opened" (writeFile has opened the sibling), "written" (writeFile
\* is done, rename is next).  fd: where the file the writer has open is now -
\* at the sibling path, at budget.json (a rename moved it), or unlinked.
IdleWriter == [pc |-> "idle", fd |-> "none", data |-> Null]

\* What a finished readBudget call found and returned; backupAt is the epoch in
\* the name of the backup it made (0 for none), before the backups it found.
NoRead ==
  [ done |-> FALSE, existed |-> FALSE, corrupt |-> FALSE, data |-> Null, backupAt |-> 0,
    before |-> {} ]

\* caller: the code that called readBudget.
IdleReader == [pc |-> "idle", epoch |-> 0, caller |-> "none"]

\* The callers of readBudget in the model: the daemon's poll
\* (readBudget() ?? emptyBudget(), watch-daemon.ts:126) and guardian_budget_get.
Readers == {"daemon", "budget_get"}

NoGet == [done |-> FALSE, corrupt |-> FALSE, existed |-> FALSE, reply |-> Null]

\* guardian_budget_get after its readBudget: without data it answers that the
\* budget is not initialized; with data it expires leases and summarizes.
BudgetGetReply(data, t) ==
  IF data = Null
    THEN [isError |-> FALSE, text |-> "Budget not initialized", summary |-> Null]
    ELSE [isError |-> FALSE, text |-> "Budget",
          summary |-> summarize(expireLeases(data, t).data, t)]

\* The answer of a guardian_budget_get call whose read is over; NoGet when the
\* read was another caller's.
GetAfter(caller, read, t) ==
  IF caller = "budget_get"
    THEN [done |-> TRUE, corrupt |-> read.corrupt, existed |-> read.existed,
          reply |-> BudgetGetReply(read.data, t)]
    ELSE NoGet

StoreInit ==
  /\ storeTmp = Null
  /\ storeDest = Null
  /\ writers = [w \in Writers |-> IdleWriter]
  /\ written = {}
  /\ lastRead = NoRead
  /\ reader = IdleReader
  /\ backups = {}
  /\ lastGet = NoGet

\* writeBudget(data) up to writeFile's open of budget.json.tmp with flag 'w'.
StoreOpen ==
  \E w \in Writers, d \in StoreRecords :
    /\ writers[w].pc = "idle"
    /\ storeTmp' = << >>
    /\ writers' = [writers EXCEPT ![w] = [pc |-> "opened", fd |-> "tmp", data |-> d]]
    /\ written' = written \cup {d}
    /\ UNCHANGED <<wdVars, toolVars, orderVars, captureVars, readVars, faultVars, nudgeVars, leaseVars, storeDest, lastRead, clockVars, budgetVars, trackerVars, sysVars, detVars>>

\* writeFile's write through the open file, and its close.
StoreWrite ==
  \E w \in Writers :
    LET wr == writers[w]
    IN /\ wr.pc = "opened"
       /\ storeTmp' = IF wr.fd = "tmp" THEN Overlay(storeTmp, Stringify(wr.data)) ELSE storeTmp
       /\ storeDest' = IF wr.fd = "dest" THEN Overlay(storeDest, Stringify(wr.data))
                       ELSE storeDest
       /\ writers' = [writers EXCEPT ![w] = [wr EXCEPT !.pc = "written", !.fd = "none"]]
       /\ UNCHANGED <<wdVars, toolVars, orderVars, captureVars, readVars, faultVars, nudgeVars, leaseVars, written, lastRead, clockVars, budgetVars, trackerVars, sysVars, detVars>>

\* The file another writer has open, after a rename of the sibling.
AfterRename(wr) ==
  IF wr.fd = "tmp" THEN [wr EXCEPT !.fd = "dest"]
  ELSE IF wr.fd = "dest" THEN [wr EXCEPT !.fd = "unlinked"]
  ELSE wr

\* rename(tmpPath, budgetPath): with no file at the sibling path it fails and
\* writeBudget throws BUDGET_WRITE_FAILED.
StoreRename ==
  \E w \in Writers :
    /\ writers[w].pc = "written"
    /\ IF storeTmp = Null
         THEN /\ writers' = [writers EXCEPT ![w] = IdleWriter]
              /\ UNCHANGED <<storeTmp, storeDest>>
         ELSE /\ storeDest' = storeTmp
              /\ storeTmp' = Null
              /\ writers' = [v \in Writers |->
                               IF v = w THEN IdleWriter ELSE AfterRename(writers[v])]
    /\ UNCHANGED <<wdVars, toolVars, orderVars, captureVars, readVars, faultVars, nudgeVars, leaseVars, written, lastRead, clockVars, budgetVars, trackerVars, sysVars, detVars>>

\* Mutant: no backup file is made.
BackupsAfter_None(bs, epoch, text) == bs

\* copyFile(budgetPath, backupPath): the backup holds what budget.json holds at
\* the time of the copy, and replaces a backup of the same name.
BackupsAfter(bs, epoch, text) ==
  {b \in bs : b.epoch # epoch} \cup {[epoch |-> epoch, text |-> text]}

\* readBudget() up to its return or to the copyFile of line 70: readFile
\* rejects without a file and null is returned; JSON.parse returns the record;
\* or JSON.parse throws and the backup path is made from Date.now().
StoreRead ==
  /\ reader.pc = "idle"
  /\ \E caller \in Readers :
       IF storeDest = Null THEN
         /\ lastRead' = [NoRead EXCEPT !.done = TRUE, !.before = backups]
         /\ lastGet' = GetAfter(caller, lastRead', now)
         /\ UNCHANGED reader
       ELSE IF WellFormed(storeDest) THEN
         /\ lastRead' = [NoRead EXCEPT !.done = TRUE, !.existed = TRUE,
                                       !.data = Parse(storeDest), !.before = backups]
         /\ lastGet' = GetAfter(caller, lastRead', now)
         /\ UNCHANGED reader
       ELSE
         /\ reader' = [pc |-> "backup", epoch |-> now, caller |-> caller]
         /\ UNCHANGED <<lastRead, lastGet>>
  /\ UNCHANGED <<wdVars, toolVars, orderVars, captureVars, backups, faultVars, nudgeVars, leaseVars, storeTmp, storeDest, writers, written, clockVars, budgetVars, trackerVars,
                 sysVars, detVars>>

\* The rest of readBudget() after JSON.parse threw: the copy (taken to succeed:
\* the file was just read and a rename replaces it without removing it; a
\* rejected copy is swallowed by the catch of line 71), the warning line, and
\* null is returned.
StoreBackup ==
  /\ reader.pc = "backup"
  /\ backups' = BackupsAfter(backups, reader.epoch, storeDest)
  /\ lastRead' = [NoRead EXCEPT !.done = TRUE, !.existed = TRUE, !.corrupt = TRUE,
                                !.backupAt = reader.epoch, !.before = backups]
  /\ lastGet' = GetAfter(reader.caller, lastRead', now)
  /\ reader' = IdleReader
  /\ UNCHANGED <<wdVars, toolVars, orderVars, captureVars, storeTmp, storeDest, writers, written, clockVars, budgetVars, trackerVars,
                 sysVars, detVars, leaseVars, nudgeVars, faultVars>>

\* ------------------------------------------------------- the hang detector
graceWindowSeconds == 60
criticalAfterSeconds == 600
cpuLowThreshold == 5
diskFreeWarningGB == 5
hangNoActivitySeconds == 300

\* null for processFirstSeenAt and compositeQuietSince, 0 for mostRecentMtime,
\* -1 for an unknown log age or an unknown amount of free disk.
NoTime == -1

\* ClaudeProcess: a quiet one, a working one, one with the CPU pegged, one with
\* much memory, and one with both.
Calm == [pid |-> 1000, cpuPercent |-> 0, memoryMB |-> 300]
Busy == [pid |-> 1000, cpuPercent |-> 12, memoryMB |-> 300]
Hot == [pid |-> 1000, cpuPercent |-> 99, memoryMB |-> 300]
Big == [pid |-> 1000, cpuPercent |-> 0, memoryMB |-> 5000]
HotBig == [pid |-> 1000, cpuPercent |-> 99, memoryMB |-> 5000]

\* const inGrace = Math.max(0, graceWindowSeconds - processAgeSeconds) > 0
GraceRemaining(processAgeSeconds) == Max(0, graceWindowSeconds - processAgeSeconds)

\* Mutant: the grace window still holds at its last second.
InGrace_Inclusive(processAgeSeconds) == graceWindowSeconds - processAgeSeconds >= 0

InGrace(processAgeSeconds) == GraceRemaining(processAgeSeconds) > 0

LogQuiet(activity, hangThresholdSeconds) ==
  \/ activity.logLastModifiedSecondsAgo < 0
  \/ activity.logLastModifiedSecondsAgo > hangThresholdSeconds

\* Mutant: the log alone decides.
CompositeQuiet_LogOnly(activity, hangThresholdSeconds) ==
  LogQuiet(activity, hangThresholdSeconds)

CompositeQuiet(activity, hangThresholdSeconds) ==
  LogQuiet(activity, hangThresholdSeconds) /\ ~activity.cpuActive

DiskLow(diskFreeGB) == diskFreeGB >= 0 /\ diskFreeGB < diskFreeWarningGB

\* processes.some((p) => p.cpuPercent > 95)
CpuHot(processes) == \E i \in 1..Len(processes) : processes[i].cpuPercent > 95

\* processes.some((p) => p.memoryMB > 4096)
MemoryHigh(processes) == \E i \in 1..Len(processes) : processes[i].memoryMB > 4096

\* compositeQuietSeconds > hangThresholdSeconds (line 223)
PastHang(compositeQuietSeconds, hangThresholdSeconds) ==
  compositeQuietSeconds > hangThresholdSeconds

\* Mutant: the critical band starts at the threshold itself.
PastCritical_Inclusive(compositeQuietSeconds, hangThresholdSeconds) ==
  compositeQuietSeconds >= hangThresholdSeconds + criticalAfterSeconds

\* compositeQuietSeconds > hangThresholdSeconds + criticalAfterSeconds (line 225)
PastCritical(compositeQuietSeconds, hangThresholdSeconds) ==
  compositeQuietSeconds > hangThresholdSeconds + criticalAfterSeconds

\* Lines 216-236: "hang-critical" and "hang-warn" are the two branches that push
\* a "No activity" reason.
Band(processes, activity, diskFreeGB, hangThresholdSeconds, processAgeSeconds, compositeQuietSeconds) ==
  IF InGrace(processAgeSeconds)
    THEN IF DiskLow(diskFreeGB) THEN "grace-disk" ELSE "grace"
  ELSE IF /\ CompositeQuiet(activity, hangThresholdSeconds)
          /\ PastHang(compositeQuietSeconds, hangThresholdSeconds)
    THEN IF PastCritical(compositeQuietSeconds, hangThresholdSeconds)
           THEN "hang-critical" ELSE "hang-warn"
  ELSE IF DiskLow(diskFreeGB) THEN "disk"
  ELSE IF CpuHot(processes) /\ MemoryHigh(processes) THEN "hot-and-big"
  ELSE "none"

LevelOf(band) ==
  IF band = "hang-critical" THEN "critical"
  ELSE IF band \in {"grace-disk", "hang-warn", "disk", "hot-and-big"} THEN "warn"
  ELSE "ok"

assessHangRisk(processes, activity, diskFreeGB, hangThresholdSeconds, processAgeSeconds, compositeQuietSeconds) ==
  LET band == Band(processes, activity, diskFreeGB, hangThresholdSeconds,
                   processAgeSeconds, compositeQuietSeconds)
      quiet == CompositeQuiet(activity, hangThresholdSeconds)
  IN [ level |-> LevelOf(band),
       noActivitySeconds |-> IF quiet THEN compositeQuietSeconds ELSE 0,
       cpuLowSeconds |-> IF ~activity.cpuActive THEN compositeQuietSeconds ELSE 0,
       cpuHot |-> CpuHot(processes),
       memoryHigh |-> MemoryHigh(processes),
       diskLow |-> DiskLow(diskFreeGB),
       graceRemainingSeconds |-> GraceRemaining(processAgeSeconds),
       reasons |-> (IF CpuHot(processes) THEN <<"CPU hot">> ELSE << >>)
                   \o (IF MemoryHigh(processes) THEN <<"High memory">> ELSE << >>)
                   \o (IF DiskLow(diskFreeGB) THEN <<"Disk free">> ELSE << >>)
                   \o (IF band = "hang-critical"
                         THEN <<"No activity - critical threshold exceeded">>
                       ELSE IF band = "hang-warn" THEN <<"No activity">> ELSE << >>) ]

\* Mutant: a poll without processes leaves processFirstSeenAt alone.
TrackProcesses_KeepsFirstSeen(first, since, processes, t) ==
  IF Len(processes) > 0 /\ first = NoTime THEN [first |-> t, since |-> since]
  ELSE IF Len(processes) = 0 THEN [first |-> first, since |-> NoTime]
  ELSE [first |-> first, since |-> since]

\* Lines 58-63 of the poll: processFirstSeenAt and compositeQuietSince after
\* the process list has been looked at.
TrackProcesses(first, since, processes, t) ==
  IF Len(processes) > 0 /\ first = NoTime THEN [first |-> t, since |-> since]
  ELSE IF Len(processes) = 0 THEN [first |-> NoTime, since |-> NoTime]
  ELSE [first |-> first, since |-> since]

\* Mutant: an active signal does not clear the counter.
TrackQuiet_KeepsSince(since, compositeQuiet, t) ==
  IF since = NoTime THEN (IF compositeQuiet THEN t ELSE NoTime) ELSE since

\* Lines 74-80: compositeQuietSince after the composite signal.
TrackQuiet(since, compositeQuiet, t) ==
  IF compositeQuiet THEN (IF since = NoTime THEN t ELSE since) ELSE NoTime

\* Lines 64-66 and 81-83: x ? Math.round((now - x) / 1000) : 0
SecondsSince(x, t) == IF x > 0 THEN RoundSeconds(t - x) ELSE 0

\* checkActivitySignals: the age of the newest log file, and whether any
\* process is above cpuLowThreshold.
ActivitySignals(processes, mostRecentMtime, t) ==
  [ logLastModifiedSecondsAgo |->
      IF mostRecentMtime > 0 THEN RoundSeconds(t - mostRecentMtime) ELSE -1,
    cpuActive |-> \E i \in 1..Len(processes) :
                    processes[i].cpuPercent > cpuLowThreshold ]

PollInit ==
  /\ processFirstSeenAt = NoTime
  /\ compositeQuietSince = NoTime
  /\ logMtime = NoTime
  /\ lastPoll = Null
  /\ runs = [proc |-> NoTime, quiet |-> NoTime, cpuLow |-> NoTime]

DetInit ==
  /\ PollInit
  /\ lastAssess = Null

\* What the probes of a poll find.
PollProcesses == {<< >>, <<Calm>>, <<Busy>>}
PollDiskFreeGB == {3, 100}

\* The start of a run of consecutive polls with property `holds`.
RunStart(start, holds, t) == IF holds THEN (IF start = NoTime THEN t ELSE start) ELSE NoTime

\* Lines 53-91 of one poll: the signals, the two counters, the assessment.
\* Polls that the model leaves out between two polls found what the earlier
\* one found.
DPoll ==
  \E processes \in PollProcesses, diskFreeGB \in PollDiskFreeGB :
    LET activity == ActivitySignals(processes, logMtime, now)
        tp == TrackProcesses(processFirstSeenAt, compositeQuietSince, processes, now)
        processAgeSeconds == SecondsSince(tp.first, now)
        compositeQuiet == CompositeQuiet(activity, hangNoActivitySeconds)
        since == TrackQuiet(tp.since, compositeQuiet, now)
        compositeQuietSeconds == SecondsSince(since, now)
    IN /\ processFirstSeenAt' = tp.first
       /\ compositeQuietSince' = since
       /\ lastPoll' = [ at |-> now, processes |-> processes, activity |-> activity,
                        diskFreeGB |-> diskFreeGB,
                        processAgeSeconds |-> processAgeSeconds,
                        compositeQuietSeconds |-> compositeQuietSeconds,
                        hangRisk |-> assessHangRisk(processes, activity, diskFreeGB,
                                                    hangNoActivitySeconds, processAgeSeconds,
                                                    compositeQuietSeconds) ]
       /\ runs' = [ proc |-> RunStart(runs.proc, Len(processes) > 0, now),
                    quiet |-> RunStart(runs.quiet, compositeQuiet, now),
                    cpuLow |-> RunStart(runs.cpuLow, ~activity.cpuActive, now) ]
       /\ UNCHANGED <<wdVars, toolVars, orderVars, captureVars, readVars, faultVars, nudgeVars, leaseVars, logMtime, lastAssess, clockVars, budgetVars, trackerVars, sysVars,
                      storeVars>>

\* Claude writes to one of its log files.
DLogWritten ==
  /\ logMtime' = now
  /\ UNCHANGED <<wdVars, toolVars, orderVars, captureVars, readVars, faultVars, nudgeVars, leaseVars, processFirstSeenAt, compositeQuietSince, lastPoll, runs, lastAssess,
                 clockVars, budgetVars, trackerVars, sysVars, storeVars>>

\* The inputs of a direct call of assessHangRisk.
AssessProcesses == {<< >>, <<Calm>>, <<Hot>>, <<Big>>, <<HotBig>>}
AssessLogAges == {-1, 5, 300, 301}
AssessDiskFreeGB == {-1, 0, 3, 5, 100}
AssessAges == {0, 59, 60, 3600}
AssessQuietSeconds == {0, 300, 301, 900, 901}

\* The arguments of a direct call, before the call.
AssessInputs ==
  [ processes : AssessProcesses,
    activity : [logLastModifiedSecondsAgo : AssessLogAges, cpuActive : BOOLEAN],
    diskFreeGB : AssessDiskFreeGB,
    hangThresholdSeconds : {hangNoActivitySeconds},
    processAgeSeconds : AssessAges,
    compositeQuietSeconds : AssessQuietSeconds,
    hangRisk : {Null} ]

Assess(in) ==
  assessHangRisk(in.processes, in.activity, in.diskFreeGB, in.hangThresholdSeconds,
                 in.processAgeSeconds, in.compositeQuietSeconds)

DAssess ==
  /\ lastAssess.hangRisk = Null
  /\ lastAssess' = [lastAssess EXCEPT !.hangRisk = Assess(lastAssess)]
  /\ UNCHANGED <<wdVars, toolVars, orderVars, captureVars, readVars, faultVars, nudgeVars, leaseVars, processFirstSeenAt, compositeQuietSince, logMtime, lastPoll, runs,
                 clockVars, budgetVars, trackerVars, sysVars, storeVars>>

DetDeltas == {watchdogPollMs, graceWindowSeconds * 1000, hangNoActivitySeconds * 1000 + 1000}

DAdvance ==
  /\ AdvanceBy(DetDeltas)
  /\ UNCHANGED <<wdVars, toolVars, orderVars, captureVars, readVars, faultVars, nudgeVars, leaseVars, budgetVars, trackerVars, sysVars, storeVars, detVars>>

\* ------------------------------------------------ the lease calls of Budget
\* acquire, release and expireLeases called on a Budget object with every kind
\* of argument, with a record of what each call was given and what it found.
NoArgs ==
  [ op |-> "none", n |-> 0, ttlSeconds |-> 0, id |-> 0, before |-> Null,
    ok |-> FALSE, count |-> 0, known |-> FALSE, grant |-> Null ]

LeaseInit ==
  /\ lastArgs = NoArgs
  /\ releaseCalls = {}
  /\ lastGrant = Null

\* The budget the calls start from: the default one after one adjustCap.
LeaseBudgets == { adjustCap(emptyBudget(StartTime), r, StartTime).data : r \in RiskLevels }

LeaseSlots == {NaN, 0, 1, 2}
LeaseTtls == {NaN, 0, 1}

LAcquire ==
  \E n \in LeaseSlots, ttl \in LeaseTtls :
    LET r == acquire(budget, n, ttl, "batch", now, nextLease)
    IN /\ (r.granted => nextLease <= MaxLeases)
       /\ budget' = r.data
       /\ nextLease' = IF r.granted THEN nextLease + 1 ELSE nextLease
       /\ lastArgs' = [NoArgs EXCEPT !.op = "acquire", !.n = n, !.ttlSeconds = ttl,
                                     !.id = nextLease, !.before = budget,
                                     !.ok = r.granted, !.grant = lastGrant]
       /\ lastGrant' = IF r.granted
                         THEN [id |-> nextLease, slotsInUse |-> slotsInUse(budget)]
                         ELSE Null
       /\ UNCHANGED <<wdVars, toolVars, orderVars, captureVars, readVars, faultVars, nudgeVars, releaseCalls, lastCall, lastRisk, okRun, clockVars, trackerVars,
                      sysVars, storeVars, detVars>>

\* release is called with the id of a lease that was granted, or with an id
\* (0) that no lease has.
LRelease ==
  \E id \in 0..(nextLease - 1) :
    LET r == release(budget, id)
    IN /\ budget' = r.data
       /\ lastArgs' = [NoArgs EXCEPT !.op = "release", !.id = id, !.before = budget,
                                     !.ok = r.released, !.known = (id \in releaseCalls),
                                     !.grant = lastGrant]
       /\ releaseCalls' = releaseCalls \cup {id}
       /\ lastGrant' = Null
       /\ UNCHANGED <<wdVars, toolVars, orderVars, captureVars, readVars, faultVars, nudgeVars, nextLease, lastCall, lastRisk, okRun, clockVars, trackerVars,
                      sysVars, storeVars, detVars>>

LExpireLeases ==
  LET r == expireLeases(budget, now)
  IN /\ budget' = r.data
     /\ lastArgs' = [NoArgs EXCEPT !.op = "expireLeases", !.before = budget,
                                   !.count = r.count, !.grant = lastGrant]
     /\ lastGrant' = Null
     /\ UNCHANGED <<wdVars, toolVars, orderVars, captureVars, readVars, faultVars, nudgeVars, releaseCalls, nextLease, lastCall, lastRisk, okRun, clockVars,
                    trackerVars, sysVars, storeVars, detVars>>

LeaseDeltas == {1000}

\* Time passes between two calls.
LAdvance ==
  /\ AdvanceBy(LeaseDeltas)
  /\ lastArgs' = NoArgs
  /\ UNCHANGED <<wdVars, toolVars, orderVars, captureVars, readVars, faultVars, nudgeVars, releaseCalls, lastGrant, budgetVars, trackerVars, sysVars, storeVars,
                 detVars>>

\* ----------------------------------------------------------- guardian_nudge
\* How many guardian_nudge calls are made, and how often the daemon replaces
\* state.json, in one behaviour.
MaxNudges == 2
MaxStateWrites == 1

\* isStateFresh's default maxAgeSeconds
maxAgeSeconds == 10

IdleNudge == [pc |-> "idle", state |-> Null, version |-> 0, fixed |-> FALSE]

NudgeInit ==
  /\ nudge = IdleNudge
  /\ nudgeState = Null
  /\ stateVersion = 0
  /\ nudgeLog = << >>

\* A property the object does not have.
Undefined == [undefined |-> TRUE]

\* state.attention of a parsed state.json
Attention(state) == IF "attention" \in DOMAIN state THEN state.attention ELSE Undefined

\* computeAttention: the level from the hang risk, raised to warn by a low
\* disk and to info by a reduced cap or an active incident; since is kept from
\* previousAttention when the level is the same.
AttentionLevel(hangRisk, budgetSummary, activeIncident) ==
  LET byRisk == IF hangRisk.level = "critical" THEN "critical"
                ELSE IF hangRisk.level = "warn" THEN "warn" ELSE "none"
      byDisk == IF hangRisk.diskLow /\ byRisk = "none" THEN "warn" ELSE byRisk
      byBudget == IF /\ budgetSummary # Null
                     /\ budgetSummary.currentCap < budgetSummary.baseCap
                     /\ byDisk = "none"
                    THEN "info" ELSE byDisk
  IN IF activeIncident # Null /\ byBudget = "none" THEN "info" ELSE byBudget

computeAttention(hangRisk, budgetSummary, activeIncident, previousAttention, t) ==
  LET level == AttentionLevel(hangRisk, budgetSummary, activeIncident)
  IN [ level |-> level,
       since |-> IF previousAttention # Undefined /\ previousAttention.level = level
                   THEN previousAttention.since ELSE ToISOString(t),
       incidentId |-> IF activeIncident # Null THEN activeIncident.id ELSE Null ]

\* What the probes of a tool handler find: the process list, the mtime of the
\* newest log file and the free disk in GB.
ToolProcesses == {<< >>, <<Calm>>, <<HotBig>>}
ToolLogAges == {NoTime, 1000}
ToolDiskFreeGB == {-1, 3, 100}

\* Mutant: the handler passes the process uptime and the log age where the
\* daemon passes processAgeSeconds and compositeQuietSeconds.
LiveRisk_FromProbes(processes, activity, diskFreeGB) ==
  assessHangRisk(processes, activity, diskFreeGB, hangNoActivitySeconds,
                 IF Len(processes) > 0 THEN 3600 ELSE 0,
                 Max(0, activity.logLastModifiedSecondsAgo))

\* The assessment of a handler without a fresh state.json: processAgeSeconds
\* and compositeQuietSeconds are unknown without the daemon and passed as 0.
LiveRisk(processes, activity, diskFreeGB) ==
  assessHangRisk(processes, activity, diskFreeGB, hangNoActivitySeconds, 0, 0)

\* The state the handler builds itself (liveState / effectiveState).
LiveSnapshot(processes, logAge, diskFreeGB, t) ==
  LET activity == [ logLastModifiedSecondsAgo |-> logAge,
                    cpuActive |-> \E i \in 1..Len(processes) :
                                    processes[i].cpuPercent > cpuLowThreshold ]
      hangRisk == LiveRisk(processes, activity, diskFreeGB)
  IN [ updatedAt |-> ToISOString(t),
       daemonRunning |-> FALSE,
       hangRisk |-> hangRisk,
       level |-> hangRisk.level,
       diskLow |-> hangRisk.diskLow,
       activeIncident |-> Null,
       processAgeSeconds |-> 0,
       compositeQuietSeconds |-> 0,
       budgetSummary |-> Null,
       attention |-> computeAttention(hangRisk, Null, Null, Undefined, t) ]

\* The fields of state.json the handler looks at.  The daemon writes
\* activeIncident and hangRisk.level as it finds them at the end of its tick.
\* diskLow is hangRisk.diskLow; the other trigger of step 1, a log directory
\* above maxProjectLogDirMB, leads to the same fixLogs call.
PersistedStates(t) ==
  [ updatedAt : {ToISOString(t)},
    level : RiskLevels,
    diskLow : BOOLEAN,
    activeIncident : {Null, [bundleCaptured |-> FALSE], [bundleCaptured |-> TRUE]} ]

\* The state the handler builds itself when state.json is missing or stale:
\* activeIncident is null.
LiveStates(t) ==
  { [ updatedAt |-> s.updatedAt, level |-> s.level, diskLow |-> s.diskLow,
      activeIncident |-> s.activeIncident ] :
      s \in { LiveSnapshot(p, a, d, t) :
                p \in ToolProcesses, a \in ToolLogAges, d \in ToolDiskFreeGB } }

isStateFresh(state, t) == (t - GetTime(state.updatedAt)) < maxAgeSeconds * 1000

\* Step 2 of the handler: an active incident at warn or critical without a
\* bundle.
NeedsBundle(state) ==
  /\ state.activeIncident # Null
  /\ state.level \in {"warn", "critical"}
  /\ ~state.activeIncident.bundleCaptured

\* The call is over: what it read and whether it wrote a bundle.
NudgeReturns(call, bundle) ==
  /\ nudge' = IdleNudge
  /\ nudgeLog' = Append(nudgeLog, [ version |-> call.version, state |-> call.state,
                                    fixed |-> call.fixed, bundle |-> bundle ])

\* After a step: on to the bundle or to the end of the call.
NudgeGoesOn(call) ==
  IF NeedsBundle(call.state)
    THEN nudge' = [call EXCEPT !.pc = "bundle"] /\ UNCHANGED nudgeLog
    ELSE NudgeReturns(call, FALSE)

\* The call starts: readState, then the persisted state if it is fresh or the
\* state the handler probes itself.
NudgeRead ==
  /\ nudge.pc = "idle"
  /\ Len(nudgeLog) < MaxNudges
  /\ \E effectiveState \in
         IF nudgeState # Null /\ isStateFresh(nudgeState, now)
           THEN {nudgeState} ELSE LiveStates(now) :
       LET call == [IdleNudge EXCEPT !.state = effectiveState, !.version = stateVersion]
       IN IF effectiveState.diskLow
            THEN nudge' = [call EXCEPT !.pc = "fix"] /\ UNCHANGED nudgeLog
            ELSE NudgeGoesOn(call)
  /\ UNCHANGED <<wdVars, toolVars, orderVars, captureVars, readVars, faultVars, nudgeState, stateVersion, clockVars, budgetVars, trackerVars, sysVars,
                 storeVars, detVars, leaseVars>>

\* Step 1: fixLogs resolves, or rejects and the outer catch ends the call.
NudgeFixLogs ==
  /\ nudge.pc = "fix"
  /\ \E ok \in BOOLEAN :
       IF ok THEN NudgeGoesOn([nudge EXCEPT !.fixed = TRUE])
             ELSE NudgeReturns(nudge, FALSE)
  /\ UNCHANGED <<wdVars, toolVars, orderVars, captureVars, readVars, faultVars, nudgeState, stateVersion, clockVars, budgetVars, trackerVars, sysVars,
                 storeVars, detVars, leaseVars>>

\* Step 2: generateBundle resolves with a bundle written, or rejects.
NudgeBundle ==
  /\ nudge.pc = "bundle"
  /\ \E ok \in BOOLEAN : NudgeReturns(nudge, ok)
  /\ UNCHANGED <<wdVars, toolVars, orderVars, captureVars, readVars, faultVars, nudgeState, stateVersion, clockVars, budgetVars, trackerVars, sysVars,
                 storeVars, detVars, leaseVars>>

\* The daemon's tick ends with writeState: state.json is replaced.
NudgeDaemonWrites ==
  /\ stateVersion < MaxStateWrites
  /\ nudgeState' \in PersistedStates(now)
  /\ stateVersion' = stateVersion + 1
  /\ UNCHANGED <<wdVars, toolVars, orderVars, captureVars, readVars, faultVars, nudge, nudgeLog, clockVars, budgetVars, trackerVars, sysVars, storeVars,
                 detVars, leaseVars>>

NudgeDeltas == {maxAgeSeconds * 1000}

NudgeAdvance ==
  /\ AdvanceBy(NudgeDeltas)
  /\ UNCHANGED <<wdVars, toolVars, orderVars, captureVars, readVars, faultVars, nudgeVars, budgetVars, trackerVars, sysVars, storeVars, detVars,
                 leaseVars>>

\* ------------------------------------------------------------ the watchdog
\* How many children one behaviour spawns, and how many pollCheck calls wait
\* in captureBundle at once.
MaxSpawns == 7
MaxPolls == 2

\* THRESHOLDS.maxRestarts
maxRestarts == 5

\* The constructor with the default configuration.  child is
\* the spawn number of this.child (0: null), killed its child.killed, spawned
\* the number of spawnChild calls; quiet says whether now - lastActivityTime is
\* above config.hangNoActivitySeconds.
WdInit ==
  /\ watchdog = [ autoRestart |-> FALSE, stopped |-> FALSE, pollTimer |-> FALSE,
                   child |-> 0, killed |-> FALSE, childPid |-> 0, restartCount |-> 0,
                   quiet |-> FALSE, spawned |-> 0 ]
  /\ running = {}
  /\ signalled = {}
  /\ polls = 0
  /\ crashes = 0
  /\ timers = 0

\* spawnChild: the new process becomes this.child, with its pid and a fresh
\* lastActivityTime; the child it replaces is not looked at.
spawnChild(w) ==
  [w EXCEPT !.child = w.spawned + 1, !.killed = FALSE, !.childPid = w.spawned + 1,
            !.quiet = FALSE, !.spawned = w.spawned + 1]

\* if (this.child && !this.child.killed)
Kills(w) == w.child # 0 /\ ~w.killed

\* child.kill('SIGTERM'): the signal goes out and killed is set when the
\* process is alive; for a process that has exited kill returns false.
kill(w) == IF w.child \in running THEN [w EXCEPT !.killed = TRUE] ELSE w

Signalled(w) == IF Kills(w) /\ w.child \in running THEN signalled \cup {w.child} ELSE signalled

\* stop(): stopped, stopPolling, and SIGTERM to the child.
stop(w) ==
  LET s == [w EXCEPT !.stopped = TRUE, !.pollTimer = FALSE]
  IN IF Kills(w) THEN kill(s) ELSE s

\* What the watchdog does not touch.
WdOthers ==
  <<clockVars, budgetVars, trackerVars, sysVars, storeVars, detVars, leaseVars, nudgeVars,
    faultVars, readVars, captureVars, orderVars, toolVars>>

\* start(): spawnChild and startPolling, under the configuration of the run
\* command.
WdStart ==
  /\ watchdog.spawned = 0
  /\ ~watchdog.stopped
  /\ \E autoRestart \in BOOLEAN :
       watchdog' = [spawnChild(watchdog) EXCEPT !.pollTimer = TRUE, !.autoRestart = autoRestart]
  /\ running' = running \cup {watchdog.spawned + 1}
  /\ UNCHANGED <<signalled, polls, crashes, timers>>
  /\ UNCHANGED WdOthers

\* A child writes to stdout or stderr: the listeners of spawnChild set
\* lastActivityTime, those of a replaced child as well.
WdChildOutput ==
  /\ running # {}
  /\ watchdog.quiet
  /\ watchdog' = [watchdog EXCEPT !.quiet = FALSE]
  /\ UNCHANGED <<running, signalled, polls, crashes, timers>>
  /\ UNCHANGED WdOthers

\* Time passes without output until lastActivityTime is more than
\* hangNoActivitySeconds ago.
WdQuietElapses ==
  /\ watchdog.spawned > 0
  /\ ~watchdog.quiet
  /\ watchdog' = [watchdog EXCEPT !.quiet = TRUE]
  /\ UNCHANGED <<running, signalled, polls, crashes, timers>>
  /\ UNCHANGED WdOthers

\* The interval timer calls pollCheck: with a child pid and a hang it goes into
\* captureBundle.  state.childPid is never cleared when a child exits.
WdPollFire ==
  /\ watchdog.pollTimer
  /\ ~(watchdog.stopped \/ watchdog.childPid = 0)
  /\ watchdog.quiet
  /\ polls < MaxPolls
  /\ polls' = polls + 1
  /\ UNCHANGED <<watchdog, running, signalled, crashes, timers>>
  /\ UNCHANGED WdOthers

\* pollCheck after captureBundle (which catches its own errors): with
\* autoRestart the child is killed, restartCount counted and a child spawned.
WdPollResume ==
  /\ polls > 0
  /\ polls' = polls - 1
  /\ IF watchdog.autoRestart THEN
       /\ watchdog.spawned < MaxSpawns
       /\ LET k == IF Kills(watchdog) THEN kill(watchdog) ELSE watchdog
          IN watchdog' = spawnChild([k EXCEPT !.restartCount = k.restartCount + 1])
       /\ signalled' = Signalled(watchdog)
       /\ running' = running \cup {watchdog.spawned + 1}
     ELSE UNCHANGED <<watchdog, signalled, running>>
  /\ UNCHANGED <<crashes, timers>>
  /\ UNCHANGED WdOthers

\* A child exits, by itself or from a signal: its exit listener calls
\* handleCrash unless the watchdog is stopped.
WdChildExits ==
  \E c \in running :
    /\ running' = running \ {c}
    /\ crashes' = IF watchdog.stopped THEN crashes ELSE crashes + 1
    /\ UNCHANGED <<watchdog, signalled, polls, timers>>
    /\ UNCHANGED WdOthers

\* handleCrash after captureBundle and writeJournalEntry: a restart timer when
\* autoRestart and restartCount < maxRestarts, stop() at maxRestarts; a
\* rejected writeJournalEntry ends it before that.
WdCrashResume ==
  /\ crashes > 0
  /\ crashes' = crashes - 1
  /\ \E ok \in BOOLEAN :
       IF ~ok THEN UNCHANGED <<watchdog, signalled, timers>>
       ELSE IF watchdog.autoRestart /\ watchdog.restartCount < maxRestarts THEN
         /\ timers' = timers + 1
         /\ UNCHANGED <<watchdog, signalled>>
       ELSE IF watchdog.restartCount >= maxRestarts THEN
         /\ watchdog' = stop(watchdog)
         /\ signalled' = Signalled(watchdog)
         /\ UNCHANGED timers
       ELSE UNCHANGED <<watchdog, signalled, timers>>
  /\ UNCHANGED <<running, polls>>
  /\ UNCHANGED WdOthers

\* The restart timer fires: unless stopped, restartCount is counted and a
\* child spawned.
WdTimerFires ==
  /\ timers > 0
  /\ timers' = timers - 1
  /\ IF ~watchdog.stopped THEN
       /\ watchdog.spawned < MaxSpawns
       /\ watchdog' = spawnChild([watchdog EXCEPT !.restartCount = watchdog.restartCount + 1])
       /\ running' = running \cup {watchdog.spawned + 1}
     ELSE UNCHANGED <<watchdog, running>>
  /\ UNCHANGED <<signalled, polls, crashes>>
  /\ UNCHANGED WdOthers

\* The operator's SIGINT or SIGTERM: the shutdown handler of the run command
\* calls stop().
WdStop ==
  /\ watchdog.spawned > 0
  /\ ~watchdog.stopped
  /\ watchdog' = stop(watchdog)
  /\ signalled' = Signalled(watchdog)
  /\ UNCHANGED <<running, polls, crashes, timers>>
  /\ UNCHANGED WdOthers

\* ------------------------------ guardian_status and guardian_recovery_plan
\* How many of these calls are made in one behaviour.
MaxToolCalls == 2

Tools == {"guardian_status", "guardian_recovery_plan"}

\* A state.json whose text JSON.parse rejects.
Corrupt == [corrupt |-> TRUE]

IdleTool == [pc |-> "idle", tool |-> "none", found |-> "none", age |-> 0]

\* found: "missing", "corrupt" or "parsed"; age: now - updatedAt in ms of a
\* parsed state.json; probed: the handler went on to its own probes; probes:
\* what they returned; reply: what it answered.
NoTool ==
  [ done |-> FALSE, tool |-> "none", found |-> "none", age |-> 0, probed |-> FALSE,
    probes |-> Null, reply |-> Null ]

ToolInit ==
  /\ toolCall = IdleTool
  /\ toolCalls = 0
  /\ lastTool = NoTool

\* formatStatus(state) and formatRecoveryPlan(generateRecoveryPlan(state)): both
\* read state.attention.level (formatBanner) or state.attention.reason, which
\* throws a TypeError for a state without attention; the handler's catch turns
\* it into an error answer.
FormatReply(tool, state, kind) ==
  IF Attention(state) = Undefined
    THEN [isError |-> TRUE, kind |-> "error", state |-> Null]
    ELSE [isError |-> FALSE, kind |-> kind, state |-> state]

\* The call starts: readState, and with a state that is fresh the answer from
\* it; readState returns null for a missing file and, after its backup copy,
\* for a corrupt one.
ToolRead ==
  /\ toolCall.pc = "idle"
  /\ toolCalls < MaxToolCalls
  /\ toolCalls' = toolCalls + 1
  /\ \E tool \in Tools :
       IF nudgeState = Null THEN
         /\ toolCall' = [pc |-> "probe", tool |-> tool, found |-> "missing", age |-> 0]
         /\ UNCHANGED lastTool
       ELSE IF nudgeState = Corrupt THEN
         /\ toolCall' = [pc |-> "backup", tool |-> tool, found |-> "corrupt", age |-> 0]
         /\ UNCHANGED lastTool
       ELSE IF isStateFresh(nudgeState, now) THEN
         /\ toolCall' = IdleTool
         /\ lastTool' = [ done |-> TRUE, tool |-> tool, found |-> "parsed",
                          age |-> now - GetTime(nudgeState.updatedAt), probed |-> FALSE,
                          probes |-> Null,
                          reply |-> FormatReply(tool, nudgeState, "persisted") ]
       ELSE
         /\ toolCall' = [ pc |-> "probe", tool |-> tool, found |-> "parsed",
                          age |-> now - GetTime(nudgeState.updatedAt) ]
         /\ UNCHANGED lastTool
  /\ UNCHANGED <<wdVars, nudgeVars, clockVars, budgetVars, trackerVars, sysVars, storeVars, detVars,
                 leaseVars, faultVars, readVars, captureVars, orderVars>>

\* readState's copyFile of the corrupt file: best effort, then it returns null.
ToolBackup ==
  /\ toolCall.pc = "backup"
  /\ toolCall' = [toolCall EXCEPT !.pc = "probe"]
  /\ UNCHANGED <<wdVars, toolCalls, lastTool, nudgeVars, clockVars, budgetVars, trackerVars, sysVars,
                 storeVars, detVars, leaseVars, faultVars, readVars, captureVars, orderVars>>

\* The handler's own probes resolve and it answers from the live state, or one
\* of them (or scanLogs) rejects and the catch answers with the error.
ToolProbe ==
  /\ toolCall.pc = "probe"
  /\ toolCall' = IdleTool
  /\ \E p \in ToolProcesses, a \in ToolLogAges, d \in ToolDiskFreeGB, ok \in BOOLEAN :
       lastTool' = [ done |-> TRUE, tool |-> toolCall.tool, found |-> toolCall.found,
                     age |-> toolCall.age, probed |-> TRUE,
                     probes |-> [processes |-> p, logAge |-> a, diskFreeGB |-> d],
                     reply |-> IF ok THEN FormatReply(toolCall.tool,
                                                      LiveSnapshot(p, a, d, now), "live")
                               ELSE [isError |-> TRUE, kind |-> "error", state |-> Null] ]
  /\ UNCHANGED <<wdVars, toolCalls, nudgeVars, clockVars, budgetVars, trackerVars, sysVars,
                 storeVars, detVars, leaseVars, faultVars, readVars, captureVars, orderVars>>

\* state.json is damaged outside the program (spec 6, corruption recovery).
StateCorrupted ==
  /\ nudgeState \notin {Null, Corrupt}
  /\ nudgeState' = Corrupt
  /\ UNCHANGED <<wdVars, toolVars, nudge, stateVersion, nudgeLog, clockVars, budgetVars, trackerVars,
                 sysVars, storeVars, detVars, leaseVars, faultVars, readVars, captureVars,
                 orderVars>>

\* Around the freshness limit, to the millisecond.
ToolDeltas == {1, maxAgeSeconds * 1000 - 1}

ToolAdvance ==
  /\ AdvanceBy(ToolDeltas)
  /\ UNCHANGED <<wdVars, toolVars, nudgeVars, budgetVars, trackerVars, sysVars, storeVars, detVars,
                 leaseVars, faultVars, readVars, captureVars, orderVars>>

\* ------------------------------------------- the Budget object under test
\* What every call records: the method, the slots in use and the cap it
\* found, and whether it granted / released / changed something.  A clock step
\* forgets the call, so a state that records a call is the state right after it.
Seen(op, ok) ==
  [ op |-> op, sumBefore |-> slotsInUse(budget), capBefore |-> budget.currentCap,
    ok |-> ok ]

NoCall == [op |-> "none", sumBefore |-> 0, capBefore |-> 0, ok |-> FALSE]

NoRun == [active |-> FALSE, start |-> 0, reduced |-> 0]

BudgetInit ==
  /\ budget = emptyBudget(StartTime)
  /\ nextLease = 1
  /\ lastCall = NoCall
  /\ lastRisk = "none"
  /\ okRun = NoRun

\* The run of consecutive ok observations: it starts with the first ok after
\* a warn or critical observation, which left the cap reduced.
OkRunAfter(riskLevel) ==
  IF riskLevel # "ok" THEN NoRun
  ELSE IF lastRisk \in {"warn", "critical"}
    THEN [active |-> TRUE, start |-> now, reduced |-> budget.currentCap]
    ELSE okRun

BAdjustCap ==
  \E riskLevel \in RiskLevels :
    /\ budget' = adjustCap(budget, riskLevel, now).data
    /\ lastCall' = Seen("adjustCap", adjustCap(budget, riskLevel, now).changed)
    /\ lastRisk' = riskLevel
    /\ okRun' = OkRunAfter(riskLevel)
    /\ UNCHANGED <<wdVars, toolVars, orderVars, captureVars, readVars, faultVars, nudgeVars, leaseVars, storeVars, detVars, nextLease, clockVars, trackerVars, sysVars>>

SlotChoices == {0, 1, 3}
TtlChoices == {0, 60}

BAcquire ==
  \E n \in SlotChoices, ttl \in TtlChoices :
    LET r == acquire(budget, n, ttl, "batch", now, nextLease)
    IN /\ (r.granted => nextLease <= MaxLeases)
       /\ budget' = r.data
       /\ nextLease' = IF r.granted THEN nextLease + 1 ELSE nextLease
       /\ lastCall' = Seen("acquire", r.granted)
       /\ UNCHANGED <<wdVars, toolVars, orderVars, captureVars, readVars, faultVars, nudgeVars, leaseVars, storeVars, detVars, lastRisk, okRun, clockVars, trackerVars, sysVars>>

BRelease ==
  \E id \in 1..MaxLeases :
    /\ budget' = release(budget, id).data
    /\ lastCall' = Seen("release", release(budget, id).released)
    /\ UNCHANGED <<wdVars, toolVars, orderVars, captureVars, readVars, faultVars, nudgeVars, leaseVars, storeVars, detVars, nextLease, lastRisk, okRun, clockVars, trackerVars, sysVars>>

BExpireLeases ==
  /\ budget' = expireLeases(budget, now).data
  /\ lastCall' = Seen("expireLeases", expireLeases(budget, now).count > 0)
  /\ UNCHANGED <<wdVars, toolVars, orderVars, captureVars, readVars, faultVars, nudgeVars, leaseVars, storeVars, detVars, nextLease, lastRisk, okRun, clockVars, trackerVars, sysVars>>

BudgetDeltas == {1000, 59000}

BAdvance ==
  /\ AdvanceBy(BudgetDeltas)
  /\ lastCall' = NoCall
  /\ UNCHANGED <<wdVars, toolVars, orderVars, captureVars, readVars, faultVars, nudgeVars, leaseVars, storeVars, detVars, budget, nextLease, lastRisk, okRun, trackerVars, sysVars>>

InitBudget ==
  /\ now = StartTime
  /\ advances = 0
  /\ BudgetInit
  /\ TrackerInit
  /\ SysInit
  /\ StoreInit
  /\ LeaseInit
  /\ NudgeInit
  /\ FaultInit
  /\ WdInit
  /\ ToolInit
  /\ OrderInit
  /\ CaptureInit
  /\ DetInit

NextBudget == BAdjustCap \/ BAcquire \/ BRelease \/ BExpireLeases \/ BAdvance

SpecBudget == InitBudget /\ [][NextBudget]_vars

InitTracker ==
  /\ now = StartTime
  /\ advances = 0
  /\ BudgetInit
  /\ TrackerInit
  /\ SysInit
  /\ StoreInit
  /\ LeaseInit
  /\ NudgeInit
  /\ FaultInit
  /\ WdInit
  /\ ToolInit
  /\ OrderInit
  /\ CaptureInit
  /\ DetInit

NextTracker == TUpdate \/ TMarkBundleCaptured \/ TAppendLands \/ TAdvance

SpecTracker == InitTracker /\ [][NextTracker]_vars

Init ==
  /\ now = StartTime
  /\ advances = 0
  /\ BudgetInit
  /\ TrackerInit
  /\ SysInit
  /\ StoreInit
  /\ LeaseInit
  /\ NudgeInit
  /\ FaultInit
  /\ WdInit
  /\ ToolInit
  /\ OrderInit
  /\ CaptureInit
  /\ DetInit

\* The daemon beside the MCP server's and the CLI's budget handlers.  One
\* callback closes no incident, so nothing is appended to the incident log here.
Next ==
  \/ TickFire(MaxSharedFires) \/ TickObserve \/ TickBundleDone \/ TickBundleFails
  \/ TickReadBudget \/ TickWriteTmp \/ TickRename \/ TickWriteState \/ TickRenameState
  \/ RpcAcquireRead \/ RpcReleaseRead \/ RpcWriteTmp \/ RpcRename
  \/ SysAdvance

Spec == Init /\ [][Next]_vars

\* The daemon alone: the interval timer and the callbacks it starts.
InitDaemon ==
  /\ now = StartTime
  /\ advances = 0
  /\ BudgetInit
  /\ TrackerInit
  /\ SysInit
  /\ StoreInit
  /\ LeaseInit
  /\ NudgeInit
  /\ FaultInit
  /\ WdInit
  /\ ToolInit
  /\ OrderInit
  /\ CaptureInit
  /\ DetInit

NextDaemon ==
  \/ TickFire(MaxFires) \/ TickObserve \/ TickBundleDone \/ TickBundleFails
  \/ TickReadBudget \/ TickWriteTmp \/ TickRename \/ TickWriteState \/ TickRenameState
  \/ SysAppendLands \/ SysAdvance

SpecDaemon == InitDaemon /\ [][NextDaemon]_vars

\* Two callers of writeBudget and a reader, on the same budget.json.
InitStore ==
  /\ now = StartTime
  /\ advances = 0
  /\ BudgetInit
  /\ TrackerInit
  /\ SysInit
  /\ StoreInit
  /\ LeaseInit
  /\ NudgeInit
  /\ FaultInit
  /\ WdInit
  /\ ToolInit
  /\ OrderInit
  /\ CaptureInit
  /\ DetInit

NextStore == StoreOpen \/ StoreWrite \/ StoreRename \/ StoreRead \/ StoreBackup

SpecStore == InitStore /\ [][NextStore]_vars

\* The lease calls of one Budget object, from each cap the daemon sets.
InitLeases ==
  /\ now = StartTime
  /\ advances = 0
  /\ budget \in LeaseBudgets
  /\ nextLease = 1
  /\ lastCall = NoCall
  /\ lastRisk = "none"
  /\ okRun = NoRun
  /\ TrackerInit
  /\ SysInit
  /\ StoreInit
  /\ LeaseInit
  /\ NudgeInit
  /\ FaultInit
  /\ WdInit
  /\ ToolInit
  /\ OrderInit
  /\ CaptureInit
  /\ DetInit

NextLeases == LAcquire \/ LRelease \/ LExpireLeases \/ LAdvance

SpecLeases == InitLeases /\ [][NextLeases]_vars

\* guardian_nudge calls, one after the other, beside a daemon that replaces
\* state.json.
InitNudge ==
  /\ now = StartTime
  /\ advances = 0
  /\ BudgetInit
  /\ TrackerInit
  /\ SysInit
  /\ StoreInit
  /\ LeaseInit
  /\ NudgeInit
  /\ FaultInit
  /\ WdInit
  /\ ToolInit
  /\ OrderInit
  /\ CaptureInit
  /\ DetInit

NextNudge == NudgeRead \/ NudgeFixLogs \/ NudgeBundle \/ NudgeDaemonWrites \/ NudgeAdvance

SpecNudge == InitNudge /\ [][NextNudge]_vars

\* The daemon alone, with awaits that reject.
NextFaults == NextDaemon \/ TickStepFails \/ SysAppendFails

SpecFaults == InitDaemon /\ [][NextFaults]_vars

\* assessHangRisk called directly, on every combination of the inputs.
InitStatus ==
  /\ now = StartTime
  /\ advances = 0
  /\ BudgetInit
  /\ TrackerInit
  /\ SysInit
  /\ StoreInit
  /\ LeaseInit
  /\ NudgeInit
  /\ FaultInit
  /\ WdInit
  /\ ToolInit
  /\ OrderInit
  /\ CaptureInit
  /\ DetInit

NextStatus ==
  ToolRead \/ ToolBackup \/ ToolProbe \/ NudgeDaemonWrites \/ StateCorrupted \/ ToolAdvance

SpecStatus == InitStatus /\ [][NextStatus]_vars

InitWatchdog ==
  /\ now = StartTime
  /\ advances = 0
  /\ BudgetInit
  /\ TrackerInit
  /\ SysInit
  /\ StoreInit
  /\ LeaseInit
  /\ NudgeInit
  /\ FaultInit
  /\ WdInit
  /\ ToolInit
  /\ OrderInit
  /\ CaptureInit
  /\ DetInit

NextWatchdog ==
  \/ WdStart \/ WdChildOutput \/ WdQuietElapses \/ WdPollFire \/ WdPollResume
  \/ WdChildExits \/ WdCrashResume \/ WdTimerFires \/ WdStop

SpecWatchdog == InitWatchdog /\ [][NextWatchdog]_vars

InitAssess ==
  /\ now = StartTime
  /\ advances = 0
  /\ BudgetInit
  /\ TrackerInit
  /\ SysInit
  /\ StoreInit
  /\ LeaseInit
  /\ NudgeInit
  /\ FaultInit
  /\ WdInit
  /\ ToolInit
  /\ OrderInit
  /\ CaptureInit
  /\ PollInit
  /\ lastAssess \in AssessInputs

NextAssess == DAssess

SpecAssess == InitAssess /\ [][NextAssess]_vars

\* The daemon's polls: the signals, the counters and the assessment.
InitDetector ==
  /\ now = StartTime
  /\ advances = 0
  /\ BudgetInit
  /\ TrackerInit
  /\ SysInit
  /\ StoreInit
  /\ LeaseInit
  /\ NudgeInit
  /\ FaultInit
  /\ WdInit
  /\ ToolInit
  /\ OrderInit
  /\ CaptureInit
  /\ DetInit

NextDetector == DPoll \/ DLogWritten \/ DAdvance

SpecDetector == InitDetector /\ [][NextDetector]_vars

\* ------------------------------------------------------------ claims C1-C2
\* C1: over any run of the watch daemon, for every interleaving of its poll
\* callbacks, at most one diagnostics bundle is successfully written for any
\* single incident.
C1_OneBundlePerIncident == \A i \in IncidentIds : bundles[i] <= 1

\* The leases budget.json holds.
PersistedLeases ==
  IF budgetFile = Null THEN {}
  ELSE {budgetFile.leases[k] : k \in 1..Len(budgetFile.leases)}

\* C2: for every interleaving of the daemon's read-expire-adjust-write of
\* budget.json with the acquire and release handlers, a lease whose acquire
\* returned granted is in the persisted budget until it is released or its
\* expiresAt passes, and a lease whose release succeeded is never in the
\* persisted budget again.
C2_LeasesPersist ==
  /\ \A l \in granted :
       (l.id \notin released /\ LeaseLive(l, now)) => l \in PersistedLeases
  /\ \A l \in PersistedLeases : l.id \notin released

\* ------------------------------------------------------------ claims C3-C6
HysteresisMs == hysteresisSeconds * 1000

\* C3: starting from a budget whose lease slots sum to at most currentCap, no
\* acquire, release or expireLeases makes the sum exceed currentCap; a call that
\* does is an adjustCap that lowered the cap; and an acquire that finds the sum
\* at or above the cap is denied and adds nothing.
C3_SumWithinCap ==
  /\ ( /\ lastCall.op \in {"acquire", "release", "expireLeases"}
       /\ lastCall.sumBefore <= lastCall.capBefore )
     => slotsInUse(budget) <= budget.currentCap
  /\ ( /\ lastCall.op # "none"
       /\ lastCall.sumBefore <= lastCall.capBefore
       /\ slotsInUse(budget) > budget.currentCap )
     => (lastCall.op = "adjustCap" /\ budget.currentCap < lastCall.capBefore)
  /\ ( /\ lastCall.op = "acquire"
       /\ lastCall.sumBefore >= lastCall.capBefore )
     => (~lastCall.ok /\ slotsInUse(budget) = lastCall.sumBefore)

\* An acquire was denied while the leases held more than the reduced cap.
C3_Witness ==
  /\ lastCall.op = "acquire"
  /\ lastCall.sumBefore > lastCall.capBefore
  /\ ~lastCall.ok

\* C4: in a run of consecutive ok observations that follows a warn or critical
\* one and whose first ok is at t0, an adjustCap call before t0 + 60 s leaves
\* currentCap at its reduced value and a call at or after t0 + 60 s leaves it at
\* baseCap; a warn or critical observation ends the run, so the next ok starts
\* a new t0.
C4_Hysteresis ==
  (lastCall.op = "adjustCap" /\ lastRisk = "ok" /\ okRun.active)
    => IF now < okRun.start + HysteresisMs
         THEN budget.currentCap = okRun.reduced
         ELSE budget.currentCap = budget.baseCap

\* The cap was restored by the observation exactly 60 s after the first ok.
C4_Witness ==
  /\ lastCall.op = "adjustCap"
  /\ lastRisk = "ok"
  /\ okRun.active
  /\ okRun.reduced < baseCap
  /\ now = okRun.start + HysteresisMs
  /\ lastCall.capBefore = okRun.reduced
  /\ budget.currentCap = baseCap

\* The state right after an adjustCap call that restored the cap.
Restored ==
  /\ lastCall.op = "adjustCap"
  /\ lastCall.capBefore < budget.baseCap
  /\ budget.currentCap = budget.baseCap

NonOk == {"warn", "critical"}

\* Every incident written out: the appends still pending and the log's lines.
Written == appendQueue \o incidentLog

\* C7: after every update call an incident is active exactly when the level
\* fed was warn or critical, and at most one incident is open at a time: of
\* the incidents opened so far, all but the active one have been closed and
\* handed to the incident log.
C7_ActiveIffNonOk ==
  /\ lastLevel # "none" => ((active # Null) <=> (lastLevel \in NonOk))
  /\ (nextIncident - 1) - Len(Written) = (IF active # Null THEN 1 ELSE 0)

\* A second incident is active after the first one was closed.
C7_Witness ==
  /\ active # Null
  /\ lastLevel = "warn"
  /\ Len(Written) = 1

\* C8: within one incident peakLevel never decreases: once a critical level
\* was fed, peakLevel is critical through every later warn until the close.
C8_PeakMonotonic ==
  (active # Null /\ sawCritical) => active.peakLevel = "critical"

\* A warn level was fed after a critical one and the peak is still critical.
C8_Witness ==
  /\ active # Null
  /\ sawCritical
  /\ lastLevel = "warn"
  /\ active.peakLevel = "critical"

CooledDown(pids) ==
  \A p \in pids : lastMark[p] = -1 \/ now - lastMark[p] >= bundleCooldownSeconds * 1000

\* C10: shouldCaptureBundle(pids) is true exactly when an incident is active,
\* its peakLevel is critical, its bundleCaptured is false and every pid of pids
\* is past the cooldown since the last markBundleCaptured that included it.
C10_CaptureGate ==
  \A pids \in SUBSET Pids :
    shouldCaptureBundle(active, lastBundleAtByPid, pids, now)
      <=> ( /\ active # Null
            /\ active.peakLevel = "critical"
            /\ ~active.bundleCaptured
            /\ CooledDown(pids) )

\* A critical, uncaptured incident with one pid exactly at the end of its
\* cooldown and the other still inside it.
C10_Witness ==
  /\ active # Null
  /\ active.peakLevel = "critical"
  /\ ~active.bundleCaptured
  /\ \E p, q \in Pids :
       /\ lastMark[p] # -1 /\ now - lastMark[p] = bundleCooldownSeconds * 1000
       /\ lastMark[q] # -1 /\ now - lastMark[q] < bundleCooldownSeconds * 1000
       /\ shouldCaptureBundle(active, lastBundleAtByPid, {p}, now)
       /\ ~shouldCaptureBundle(active, lastBundleAtByPid, {q}, now)


\* ---------------------------------------------------------- claims C11-C14
\* The poll callbacks suspended at `await generateBundle()`.
Bundling == {tk \in ticks : tk.pc = "bundling"}

\* C11: the daemon never starts a bundle write while a bundle write started by
\* an earlier tick is still in progress, also when a bundle write lasts longer
\* than the 2-second tick interval.
C11_NoOverlappingBundleWrites == Cardinality(Bundling) <= 1

\* C12: an acquire or release handler changes only the lease list of the
\* persisted budget: right after its write, currentCap, okSinceAt and
\* capSetByRisk in budget.json are those of the daemon's most recent cap
\* adjustment, also when the daemon adjusted the cap between the handler's read
\* and its write.
C12_HandlerKeepsCap ==
  (lastWrite.by = "rpc" /\ lastWrite.own /\ lastWrite.daemonCap # Null)
    => CapFields(budgetFile) = lastWrite.daemonCap

\* C13: every record written to state.json holds fields computed by one and
\* the same tick: its activeIncident is non-null exactly when its
\* hangRisk.level is warn or critical, and its budgetSummary is the one that
\* tick computed, also when tick callbacks overlap.
C13_StateOfOneTick ==
  stateFile # Null =>
    /\ (stateFile.activeIncident # Null) <=> (stateFile.hangRisk.level \in NonOk)
    /\ [by |-> stateFile.by, budgetSummary |-> stateFile.budgetSummary] \in summaries

\* C14: a reader of budget.json always obtains one complete record that some
\* writer wrote, never a partial or mixed one, also when two writers go through
\* the shared sibling file budget.json.tmp at the same time.
C14_ReaderGetsWholeRecord ==
  (lastRead.done /\ lastRead.existed) => (~lastRead.corrupt /\ lastRead.data \in written)

\* ---------------------------------------------------------- claims C15-C17
\* The direct call of assessHangRisk has returned.
Assessed == lastAssess.hangRisk # Null

AssessedLogQuiet ==
  \/ lastAssess.activity.logLastModifiedSecondsAgo < 0
  \/ lastAssess.activity.logLastModifiedSecondsAgo > lastAssess.hangThresholdSeconds

AssessedDiskLow == lastAssess.diskFreeGB >= 0 /\ lastAssess.diskFreeGB < 5

C16_CriticalNeedsCompositeQuiet ==
  (Assessed /\ lastAssess.hangRisk.level = "critical") =>
    /\ AssessedLogQuiet
    /\ ~lastAssess.activity.cpuActive
    /\ lastAssess.processAgeSeconds >= 60
    /\ lastAssess.compositeQuietSeconds > lastAssess.hangThresholdSeconds + 600

\* Critical from the composite quiet alone, with plenty of disk and a calm process.
C16_Witness ==
  /\ Assessed
  /\ lastAssess.hangRisk.level = "critical"
  /\ lastAssess.diskFreeGB = 100
  /\ lastAssess.processes = <<Calm>>

\* C17: at the exact threshold values the detector takes the lower band:
\* compositeQuietSeconds = hangThreshold gives no hang-based warn,
\* compositeQuietSeconds = hangThreshold + 600 gives warn and not critical, and
\* diskFreeGB = 5 is not diskLow.
C17_LowerBandAtThreshold ==
  Assessed =>
    /\ lastAssess.compositeQuietSeconds = lastAssess.hangThresholdSeconds
         => ( /\ lastAssess.hangRisk.level # "critical"
              /\ lastAssess.hangRisk.level = "warn"
                   => \/ lastAssess.hangRisk.diskLow
                      \/ lastAssess.hangRisk.cpuHot /\ lastAssess.hangRisk.memoryHigh
              /\ \A i \in 1..Len(lastAssess.hangRisk.reasons) :
                   lastAssess.hangRisk.reasons[i] \in {"CPU hot", "High memory", "Disk free"} )
    /\ lastAssess.compositeQuietSeconds = lastAssess.hangThresholdSeconds + 600
         => ( /\ lastAssess.hangRisk.level # "critical"
              /\ ( /\ lastAssess.processAgeSeconds >= 60
                   /\ AssessedLogQuiet
                   /\ ~lastAssess.activity.cpuActive )
                   => lastAssess.hangRisk.level = "warn" )
    /\ lastAssess.diskFreeGB = 5 => ~lastAssess.hangRisk.diskLow

\* Exactly 900 s of composite quiet past the grace window with exactly 5 GB
\* free: warn, from the hang branch.
C17_Witness ==
  /\ Assessed
  /\ lastAssess.compositeQuietSeconds = 900
  /\ lastAssess.processAgeSeconds = 3600
  /\ lastAssess.activity = [logLastModifiedSecondsAgo |-> 301, cpuActive |-> FALSE]
  /\ lastAssess.diskFreeGB = 5
  /\ lastAssess.hangRisk.level = "warn"
  /\ lastAssess.hangRisk.reasons = <<"No activity">>

\* ---------------------------------------------------------- claims C18-C20
Polled == lastPoll # Null

\* Log-quiet and cpu-low as the last poll found them.
PollQuiet ==
  /\ \/ lastPoll.activity.logLastModifiedSecondsAgo < 0
     \/ lastPoll.activity.logLastModifiedSecondsAgo > hangNoActivitySeconds
  /\ ~lastPoll.activity.cpuActive

\* C18: the compositeQuietSeconds a poll reports is greater than 0 only if
\* log-quiet and cpu-low held on that poll and on every poll since the counter
\* last started, and it is 0 on every poll on which the log is not quiet or
\* some process is CPU-active.
C18_QuietCounter ==
  Polled =>
    /\ lastPoll.compositeQuietSeconds > 0
         => ( /\ PollQuiet
              /\ runs.quiet # NoTime
              /\ compositeQuietSince >= runs.quiet
              /\ lastPoll.compositeQuietSeconds
                   = RoundSeconds(lastPoll.at - compositeQuietSince) )
    /\ ~PollQuiet => lastPoll.compositeQuietSeconds = 0

\* A poll reported 301 s of composite quiet, and warn with it.
C18_Witness ==
  /\ Polled
  /\ lastPoll.compositeQuietSeconds = 301
  /\ lastPoll.hangRisk.level = "warn"

\* C19: the processAgeSeconds a poll reports is the time since the first poll
\* of the current uninterrupted run of polls that found a process, and 0 on a
\* poll that finds none; a poll without processes restarts the grace window and
\* the composite-quiet counter.
C19_ProcessAge ==
  Polled =>
    /\ Len(lastPoll.processes) = 0
         => ( /\ lastPoll.processAgeSeconds = 0
              /\ lastPoll.compositeQuietSeconds = 0
              /\ processFirstSeenAt = NoTime
              /\ compositeQuietSince \in {NoTime, lastPoll.at}
              /\ lastPoll.hangRisk.graceRemainingSeconds = graceWindowSeconds )
    /\ Len(lastPoll.processes) > 0
         => ( /\ runs.proc # NoTime
              /\ lastPoll.processAgeSeconds = RoundSeconds(lastPoll.at - runs.proc) )

\* A poll past the grace window of a run of polls that began after the start.
C19_Witness ==
  /\ Polled
  /\ Len(lastPoll.processes) > 0
  /\ runs.proc > StartTime
  /\ lastPoll.processAgeSeconds = 301
  /\ lastPoll.hangRisk.graceRemainingSeconds = 0

\* C20: once the watched processes are past the grace window, the daemon
\* reports at least warn on the first poll at which the log has been unmodified
\* and the CPU low for more than hangThreshold seconds.
C20_WarnAfterHangTimeout ==
  ( /\ Polled
    /\ Len(lastPoll.processes) > 0
    /\ lastPoll.processAgeSeconds >= graceWindowSeconds
    /\ lastPoll.activity.logLastModifiedSecondsAgo > hangNoActivitySeconds
    /\ runs.cpuLow # NoTime
    /\ RoundSeconds(lastPoll.at - runs.cpuLow) > hangNoActivitySeconds )
    => lastPoll.hangRisk.level \in {"warn", "critical"}

\* ---------------------------------------------------------- claims C21-C25
\* C21: in every budget state reached from the default budget by adjustCap,
\* acquire, release and expireLeases, currentCap is one of 4 (base), 2 (warn)
\* or 1 (critical) and never exceeds baseCap.
C21_CapValues ==
  /\ budget.baseCap = baseCap
  /\ budget.currentCap \in {baseCap, warnCap, criticalCap}
  /\ budget.currentCap <= budget.baseCap

\* An adjustCap call took the cap from the critical value back to base, with
\* leases granted in between.
C21_Witness ==
  /\ lastCall.op = "adjustCap"
  /\ lastCall.capBefore = criticalCap
  /\ budget.currentCap = baseCap
  /\ Len(budget.leases) > 0

\* C22: acquire(n, ttlSeconds, reason) is granted if and only if n > 0,
\* ttlSeconds > 0 and n is at most currentCap minus the slots in use; a request
\* for exactly the remaining slots is granted, one for one more is denied, and
\* a denied acquire leaves the lease list unchanged.
C22_AcquireGrantedIff ==
  lastArgs.op = "acquire" =>
    LET cap == lastArgs.before.currentCap
        inUse == slotsInUse(lastArgs.before)
        remaining == Add(cap, IF IsNaN(inUse) THEN NaN ELSE -inUse)
    IN /\ lastArgs.ok <=> ( /\ Gt(lastArgs.n, 0)
                            /\ Gt(lastArgs.ttlSeconds, 0)
                            /\ Leq(lastArgs.n, remaining) )
       /\ ~lastArgs.ok => budget.leases = lastArgs.before.leases

\* C23: after expireLeases(t) no remaining lease has expiresAt <= t, every
\* lease with expiresAt > t is still present unchanged, and the returned count
\* equals the number of leases removed.
C23_ExpireLeases ==
  lastArgs.op = "expireLeases" =>
    LET old == lastArgs.before.leases
        live == {i \in 1..Len(old) : GetTime(old[i].expiresAt) > now}
    IN /\ \A j \in 1..Len(budget.leases) : ~(GetTime(budget.leases[j].expiresAt) <= now)
       /\ \A i \in live : \E j \in 1..Len(budget.leases) : budget.leases[j] = old[i]
       /\ Len(budget.leases) = Cardinality(live)
       /\ lastArgs.count = Len(old) - Len(budget.leases)

\* expireLeases ran at the very instant one lease expired, while another lease
\* was still live: it removed the first and kept the second.
C23_Witness ==
  /\ lastArgs.op = "expireLeases"
  /\ \E i \in 1..Len(lastArgs.before.leases) :
       GetTime(lastArgs.before.leases[i].expiresAt) = now
  /\ Len(budget.leases) = 1
  /\ lastArgs.count = 1

\* C24: after a release(id) call, every later release(id) with the same id
\* returns false and leaves the lease list unchanged.
C24_ReleaseOnce ==
  (lastArgs.op = "release" /\ lastArgs.known)
    => (~lastArgs.ok /\ budget.leases = lastArgs.before.leases)

\* The id of a granted lease was released a second time while another lease
\* was held.
C24_Witness ==
  /\ lastArgs.op = "release"
  /\ lastArgs.known
  /\ lastArgs.id >= 1
  /\ Len(budget.leases) > 0

\* C25: a granted acquire followed by release of the returned lease id leaves
\* slotsInUse equal to its value before the acquire.
C25_AcquireThenRelease ==
  ( /\ lastArgs.op = "release"
    /\ lastArgs.grant # Null
    /\ lastArgs.id = lastArgs.grant.id )
    => (lastArgs.ok /\ slotsInUse(budget) = lastArgs.grant.slotsInUse)

\* The lease just granted was released while an older lease held slots.
C25_Witness ==
  /\ lastArgs.op = "release"
  /\ lastArgs.grant # Null
  /\ lastArgs.id = lastArgs.grant.id
  /\ lastArgs.grant.slotsInUse > 0

\* ------------------------------------------------------------- claim C26
\* C26: two consecutive nudge calls with no change to the persisted state in
\* between produce at most one bundle in total: the second call writes no
\* bundle.  Stated in its weaker reading: the two calls do not both write a
\* bundle.
C26_NudgeIdempotent ==
  \A k \in 1..(Len(nudgeLog) - 1) :
    nudgeLog[k].version = nudgeLog[k + 1].version
      => ~(nudgeLog[k].bundle /\ nudgeLog[k + 1].bundle)

\* ------------------------------------------------------- claims C27, C28
\* C27: no failure in any step of a tick (probes, bundle writing, log fixing,
\* budget read or write, state write, or the incident-log append started when
\* an incident closes) terminates the daemon or stops later ticks from running.
C27_DaemonSurvivesFailures == daemonUp

\* C28: a failure in one step of a tick is caught at that step, so the
\* remaining steps of the same tick still run: when the log fix or the budget
\* read or write fails, that tick still writes state.json.
C28_FailedStepStillWritesState ==
  \A e \in tickLog : e.failed \in {"readBudget", "writeTmp", "rename"} => e.wroteState

C30_BudgetGetOnCorruptFile ==
  (lastGet.done /\ lastGet.corrupt)
    => /\ lastGet.reply.summary # Null
       /\ lastGet.reply.summary.currentCap = baseCap
       /\ lastGet.reply.summary.activeLeases = 0

\* ---------------------------------------------------------- claims C31-C40
\* C38: in every budget state reached from the default budget through
\* adjustCap, capSetByRisk is null exactly when currentCap equals baseCap, warn
\* exactly when currentCap is 2 and critical exactly when currentCap is 1.
C38_CapSetByRiskMatchesCap ==
  /\ budget.capSetByRisk = NullRisk <=> budget.currentCap = budget.baseCap
  /\ budget.capSetByRisk = "warn" <=> budget.currentCap = warnCap
  /\ budget.capSetByRisk = "critical" <=> budget.currentCap = criticalCap

\* An ok observation inside the hysteresis window has just left a critical
\* cap, and with it capSetByRisk, in place.
C38_Witness ==
  /\ lastCall.op = "adjustCap"
  /\ lastRisk = "ok"
  /\ lastCall.capBefore = criticalCap
  /\ budget.currentCap = criticalCap
  /\ budget.capSetByRisk = "critical"

C37_FailedCaptureIsRetried ==
  \A c \in captures :
    c.state = "failed" =>
      /\ c.kept
      /\ (active # Null /\ active.id = c.incident /\ ~active.bundleCaptured)
           => \A pids \in SysPidSets :
                shouldCaptureBundle(active, lastBundleAtByPid, pids, now) <=> CooledDown(pids)

\* A later tick has started a capture for an incident whose earlier capture had
\* failed, with no capture written in between.
C37_Witness ==
  \E c, f \in captures :
    /\ f.state = "failed"
    /\ c.incident = f.incident
    /\ c.by > f.by
    /\ c.retry
    /\ bundles[c.incident] = 0

\* C33: the incident tracker receives the risk levels in exactly the order in
\* which the detector produced them, also when tick callbacks overlap: the
\* n-th level handed to update is the n-th level assessHangRisk returned, in
\* the same callback.
C33_LevelsInOrder == observed = detected /\ (observed.n > 0 => lastLevel = detected.level)

\* Two callbacks overlapped and the one that fired later produced its level
\* first: the tracker received the two levels in the order they were produced.
C33_Witness ==
  /\ observed.n = 2
  /\ \E tk \in ticks : tk.pc # "probing" /\ tk.firedAt > observed.by /\ tk.level # observed.level

C32_SinceStable ==
  stateFile # Null =>
    LET a == Attention(stateFile)
        p == IF stateBefore = Null THEN Undefined ELSE Attention(stateBefore)
    IN /\ a # Undefined
       /\ IF p # Undefined /\ p.level = a.level
            THEN a.since = p.since
            ELSE \E t \in stateFile.by..now : a.since = ToISOString(t)

\* C31: guardian_status answers with the persisted snapshot exactly when
\* state.json exists, parses and is less than maxAgeSeconds old; otherwise (the
\* file missing or corrupt, or its age maxAgeSeconds to the millisecond or more)
\* it goes on to compute the live snapshot.
C31_PersistedIffFresh ==
  (lastTool.done /\ lastTool.tool = "guardian_status") =>
    LET fresh == lastTool.found = "parsed" /\ lastTool.age < maxAgeSeconds * 1000
    IN /\ (lastTool.reply.kind = "persisted") <=> fresh
       /\ ~fresh => lastTool.probed

\* C34: the program sends no signal to any process and restarts none: no child
\* of the watchdog is sent SIGTERM and none is spawned a second time.
C34_NoSignalNoRestart ==
  /\ signalled = {}
  /\ watchdog.restartCount = 0
  /\ watchdog.spawned <= 1

\* C39: with autoRestart the watchdog restarts the child at most maxRestarts
\* times, crash restarts and hang restarts together.
C39_AtMostMaxRestarts ==
  watchdog.autoRestart =>
    /\ watchdog.restartCount <= maxRestarts
    /\ watchdog.spawned <= maxRestarts + 1

\* C40: at most one child of the watchdog runs at a time, a child that was
\* sent SIGTERM and has not exited yet not counted: the exit of a killed child
\* brings no second spawn beside the one of the hang restart.
C40_OneChildAtATime == Cardinality(running \ signalled) <= 1
====
